---------------------------- MODULE Spec2Model ----------------------------
(***************************************************************************)
(* Streaming detection and alerting pipeline of realtimeBrowserSoundDetector*)
(*                                                                         *)
(*   Spec      KeywordAlert.check_and_alert called by concurrent threads   *)
(*             (src/alert/keyword_alert.py)                                *)
(*   SpecPipe  the transcript callbacks of the two ClassroomMonitor        *)
(*             classes in ASR + keyword mode (src/monitor_web.py,          *)
(*             src/monitor.py)                                             *)
(*   SpecTrim  the same callbacks, given fragments longer than the buffer  *)
(*             limit                                                       *)
(*   SpecLlm   ASR + LLM mode: the transcript callback next to the         *)
(*             LLMTextDetector loop (src/alert/llm_text_detector.py)       *)
(*   SpecAsr   DashScopeASR: feed_audio, the recognition worker and the    *)
(*             callbacks of the recognition session, with enough frames to *)
(*             overflow the audio queue (src/asr/dashscope_asr.py)         *)
(*   SpecAsrRetry  the same client, with enough worker iterations to use   *)
(*             up the reconnect budget                                     *)
(*   SpecStop  ASR + LLM mode while stop_async stops the monitor           *)
(*   SpecQwen  Qwen2AudioDetector: feed_audio next to the detection loop   *)
(*             (src/alert/audio_detector.py)                               *)
(*   SpecSem   SemanticMatcher.find_similar_keywords called by two         *)
(*             threads (src/alert/semantic_matcher.py)                     *)
(*   SpecCache the same matcher, with enough phrases to fill the cache     *)
(*   SpecFetch the same matcher, with the outcome of each embedding        *)
(*             request kept                                                *)
(*   SpecRun   ClassroomMonitor of monitor_web.py from start() to its      *)
(*             return: restart requests, Ctrl-C and stop_async;            *)
(*             SpecRunFair adds the fairness of the event loop             *)
(*   SpecBuf   _on_text_result entered by two recognition sessions         *)
(*   SpecEvent on_event of the recognition session calling the transcript  *)
(*             callback                                                    *)
(*   SpecAgain DashScopeASR.start called again after the reconnect budget  *)
(*             was used up                                                 *)
(*   SpecSend  the recognition worker, with the outcome of each            *)
(*             send_audio_frame kept                                       *)
(*   SpecLlmLock  LLMTextDetector.feed_text next to the drain of the       *)
(*             detection loop, with _buffer_lock explicit                  *)
(*   SpecMode  _on_audio_data and the event callbacks of monitor_web.py in *)
(*             each detection mode                                         *)
(*   SpecPhrases  SemanticMatcher._extract_phrases on bounded texts        *)
(*   SpecWindow  Qwen2AudioDetector with the fed frames and the analysed   *)
(*             chunks kept                                                 *)
(*   SpecLookup  check_and_alert with its call of find_similar_keywords,   *)
(*             _cache_lock explicit                                        *)
(*   SpecLocks the threads of each non-debug mode with every lock explicit *)
(*                                                                         *)
(* Text is a sequence of one-character strings; a keyword list is a        *)
(* sequence of such texts, in configuration order.  Time is the value of   *)
(* time.time(), counted in whole seconds.                                  *)
(***************************************************************************)
EXTENDS Integers, Sequences, FiniteSets, TLC

VARIABLES
    \* ---- KeywordAlert (src/alert/keyword_alert.py:49-55)
    keywords,            \* self.keywords
    cooldown,            \* self.cooldown
    semantic_enabled,    \* self.semantic_matcher and self.semantic_matcher.enabled
    last_alert_time,     \* self.last_alert_time
    lock,                \* self.lock: 0 when free, else the holding thread
    \* ---- the system clock read by time.time()
    clock,
    \* ---- one check_and_alert activation per calling thread
    pc,                  \* position of the thread inside check_and_alert
    text,                \* the argument `text` of the thread's current or last call
    detected_keywords,   \* detected_keywords of that call
    is_semantic_match,   \* local is_semantic_match
    current_time,        \* local current_time
    outcome,             \* how the thread's last call ended: "none" while it
                         \* runs, "empty", "nomatch", "cooldown" (the three
                         \* `return False`) or "accepted" (`return True`)
    calls,               \* number of check_and_alert calls made so far
    accepted,            \* the values assigned to last_alert_time, in order
    alerts,              \* number of _trigger_alert invocations
    \* ---- ClassroomMonitor (src/monitor_web.py:146-149, src/monitor.py:46-47)
    mode,                \* "asr" and "asr+llm": monitor_web.py; "console":
                         \* monitor.py; "none": no pipeline
    text_buffer,         \* self.text_buffer
    events,              \* the transcript callbacks so far: fragment, time,
                         \* whether check_and_alert returned True, and the
                         \* keywords it detected
    web_alerts,          \* web_server.send_alert calls: source and keywords
    \* ---- LLMTextDetector (src/alert/llm_text_detector.py:37-48)
    llm_buffer,          \* self._text_buffer
    llm_last_alert_time, \* self._last_alert_time
    llm_pc,              \* position of the _detect_loop thread
    llm_text,            \* local text of _detect_loop
    llm_result,          \* local result of _detect_loop
    \* ---- DashScopeASR (src/asr/dashscope_asr.py:24-33)
    is_running,          \* self.is_running
    connection_alive,    \* self.connection_alive
    reconnect_count,     \* self.reconnect_count
    recognition,         \* self.recognition: 0 for None, else the number of
                         \* the session
    audio_queue,         \* self.audio_queue: the queued frames, oldest first
    sessions,            \* Recognition objects started so far
    session_state,       \* the session of self.recognition at the backend:
                         \* "none", "started", "opened" or "closed"
    fed,                 \* feed_audio calls made while running; frame n is
                         \* the one the n-th of them carried
    stopped,             \* stop() has been called
    w_pc,                \* position of the _recognition_worker thread
    w_frame,             \* local audio_data of the worker (0: none)
    w_iters,             \* frames the worker has taken from the queue
    dropped,             \* the last frame feed_audio dropped on a full queue
    oldest_at_drop,      \* the oldest queued frame at that moment
    oldest_fate,         \* what became of it: "queued", "sent" or "lost"
    \* ---- SemanticMatcher (src/alert/semantic_matcher.py:26-40)
    sm_enabled,          \* self.enabled
    keyword_embeddings,  \* self.keyword_embeddings: the keywords that have a
                         \* vector, in the order of the dict
    phrase_embedding_cache, \* self.phrase_embedding_cache: the cached
                         \* phrases, in the order of the dict; phrase n is the
                         \* n-th entry the cache was given
    inserted,            \* entries the cache has been given so far
    evicted,             \* the phrase the last eviction removed (0: none)
    sm_pc,               \* position of each caller of find_similar_keywords
    sm_results,          \* the vectors of its local results /
                         \* phrase_embeddings, in the order of the dict
    sm_chunks,           \* sizes of its batches still being fetched
    sm_saving,           \* vectors of the completed batch still to be saved
    sm_raced,            \* another caller has made an entry since it read
                         \* the cache
    last_by,             \* the caller that made the newest entry
    sm_matches,          \* the list it returned last
    stale_called,        \* the replaced session has made its late callback
    \* ---- ClassroomMonitor and LLMTextDetector when the monitor stops
    \* (src/monitor_web.py:333-358, src/alert/llm_text_detector.py:95-99)
    loop_running,        \* self._loop and self._loop.is_running()
    llm_running,         \* LLMTextDetector._running
    llm_stop_pc,         \* position of stop_async: "idle" before it is
                         \* called, "join" while llm_detector.stop() waits
                         \* for the worker, "returned" afterwards
    beeps,               \* winsound.Beep calls of _on_llm_alert
    stop_returned,       \* DashScopeASR.stop() has returned
    \* ---- Qwen2AudioDetector (src/alert/audio_detector.py:43-60)
    audio_buffer,        \* self.audio_buffer, counted in frames
    buffer_lock,         \* self.buffer_lock: "free" or its holder
    qa_running,          \* self._running
    qa_pc,               \* position of the _detect_loop thread
    qa_stop_pc,          \* position of stop(): "idle", "join", "returned"
    fa_pc,               \* position of the thread inside feed_audio
    qa_fed,              \* feed_audio calls made so far
    qa_last_alert_time,  \* self.last_alert_time
    \* ---- ClassroomMonitor from start() to its return
    \* (src/monitor_web.py:26-149, 245-381)
    mon_running,         \* self.is_running
    restart_requested,   \* self._restart_requested
    ws_open,             \* the audio WebSocket server is serving: the
                         \* wait_closed() of audio/server.py:72 is pending
    web_up,              \* the web control panel is serving
    sa_pc,               \* position of start(): "init" before asyncio.run,
                         \* "serve" while start_async awaits the audio
                         \* server, "finally" in its finally clause,
                         \* "exit" after start() has returned
    st_pc,               \* position of each activation of stop_async
    interrupted,         \* Ctrl+C has been pressed
    runs,                \* pipeline runs started so far
    comp,                \* state of asr_engine, audio_detector and
                         \* llm_detector
    forwarded,           \* frames _on_audio_data has passed to an engine
    \* ---- one _on_text_result activation per callback thread
    \* (src/monitor_web.py:151-177)
    cb_pc,               \* position of the thread inside the callback
    cb_frag,             \* its argument `text`
    cb_read,             \* the value of self.text_buffer it has loaded
    cb_ok,               \* its local `detected`
    cb_calls,            \* callbacks begun so far
    \* ---- the recognition events of the backend
    \* (src/asr/dashscope_asr.py:69-80)
    ev_text,             \* text of the event on_event was called with last
    ev_count,            \* on_event calls so far
    \* ---- the worker thread of a second start()
    \* (src/asr/dashscope_asr.py:172-176)
    w2_pc,               \* position of that _recognition_worker thread
    w2_frame,            \* its local audio_data (0: none)
    send_result,         \* how the worker's last send_audio_frame ended:
                         \* "ok", "transport", "other", or "none" when the
                         \* frame was not sent
    \* ---- LLMTextDetector._buffer_lock
    \* (src/alert/llm_text_detector.py:48, 78-82, 107-109)
    llm_lock,            \* "free" or the thread that holds it
    feed_pc,             \* position of the thread inside feed_text
    feed_frag,           \* its argument `text`
    feed_calls,          \* feed_text calls so far
    \* ---- the requests of _get_embeddings_batch
    \* (src/alert/semantic_matcher.py:119-133)
    last_fetch,          \* how the last request of each caller ended: "ok",
                         \* "failed", or "none" before the first
    \* ---- what _on_audio_data and the callbacks of monitor_web.py passed on
    \* (src/monitor_web.py:151-197, 245-262)
    fed_to,              \* the engines the latest frame was passed to
    recognitions,        \* the `source` of each send_recognition, in order
    \* ---- a call of SemanticMatcher._extract_phrases
    \* (src/alert/semantic_matcher.py:195-220)
    xp_text,             \* its argument
    xp_phrases,          \* the list it returned
    \* ---- the audio of Qwen2AudioDetector, frame by frame
    \* (src/alert/audio_detector.py:81-87, 106-121)
    qa_bytes,            \* self.audio_buffer: the numbers of the frames in it
    qa_windows,          \* the chunks given to _detect_audio, in order
    \* ---- SemanticMatcher._cache_lock (src/alert/semantic_matcher.py:38)
    cache_lock,          \* "free" or the caller that holds it
    \* ---- Qwen2AudioDetector.lock (src/alert/audio_detector.py:45)
    qa_lock              \* "free" or "worker"

gateVars   == <<keywords, cooldown, semantic_enabled, last_alert_time, lock>>
threadVars == <<pc, text, detected_keywords, is_semantic_match, current_time,
                outcome, calls>>
logVars    == <<accepted, alerts>>
pipeVars   == <<mode, text_buffer, events, web_alerts>>
llmVars    == <<llm_buffer, llm_last_alert_time, llm_pc, llm_text, llm_result>>
asrVars    == <<is_running, connection_alive, reconnect_count, recognition,
                audio_queue, sessions, session_state, fed, stopped>>
workerVars == <<w_pc, w_frame, w_iters>>
frameVars  == <<dropped, oldest_at_drop, oldest_fate>>
clientVars == <<asrVars, workerVars, frameVars>>
cacheVars   == <<sm_enabled, keyword_embeddings, phrase_embedding_cache,
                 inserted, evicted>>
callerVars  == <<sm_pc, sm_results, sm_chunks, sm_saving, sm_raced, last_by,
                 sm_matches, stale_called>>
matcherVars == <<cacheVars, callerVars>>
monitorVars == <<loop_running, llm_running, llm_stop_pc, beeps,
                 stop_returned>>
qwenVars    == <<audio_buffer, buffer_lock, qa_running, qa_pc, qa_stop_pc,
                 fa_pc, qa_fed, qa_last_alert_time>>
runVars     == <<mon_running, restart_requested, ws_open, web_up, sa_pc,
                 st_pc, interrupted, runs, comp, forwarded>>
bufVars     == <<cb_pc, cb_frag, cb_read, cb_ok, cb_calls>>
evVars      == <<ev_text, ev_count>>
worker2Vars == <<w2_pc, w2_frame>>
sendVars    == <<send_result>>
lockVars    == <<llm_lock, feed_pc, feed_frag, feed_calls>>
fetchVars   == <<last_fetch>>
modeVars    == <<fed_to, recognitions>>
phraseVars  == <<xp_text, xp_phrases>>
windowVars  == <<qa_bytes, qa_windows>>
lookupVars  == <<cache_lock, qa_lock>>
moreVars    == <<modeVars, phraseVars, windowVars, lookupVars>>
extVars     == <<runVars, bufVars, evVars, worker2Vars, sendVars,
                 lockVars, fetchVars, moreVars>>
vars == <<gateVars, clock, threadVars, logVars, pipeVars, llmVars, clientVars,
          matcherVars, monitorVars, qwenVars, extVars>>

-----------------------------------------------------------------------------
(* Bounds of the model *)

NumThreads  == 2      \* threads calling check_and_alert on one instance
MaxCalls    == 2      \* check_and_alert calls in one behaviour
MaxCooldown == 2      \* cooldown is drawn from 0..MaxCooldown
MaxElapsed  == 2      \* the clock runs from StartTime to StartTime+MaxElapsed
StartTime   == 10     \* time.time() at construction (seconds since the epoch)
PipeFragments == 3    \* transcript fragments in one behaviour of SpecPipe
PipeElapsed   == 6    \* seconds that pass in one behaviour of SpecPipe
LlmFragments  == 2    \* transcript fragments in one behaviour of SpecLlm
LlmElapsed    == 2    \* seconds that pass in one behaviour of SpecLlm
LongLen       == 300  \* length of the long transcript fragment
HugeLen       == 600  \* length of the fragments of SpecTrim
TrimCalls     == 2    \* transcript fragments in one behaviour of SpecTrim
TrimElapsed   == 1    \* seconds that pass in one behaviour of SpecTrim
CacheInserts  == 302  \* cache entries made in one behaviour of SpecCache
FetchInserts    == 11    \* cache entries made in one behaviour of SpecFetch
SemInserts    == 12   \* cache entries made in one behaviour of SpecSem
QwenFrames    == 4    \* feed_audio calls in one behaviour of SpecQwen
ChunkFrames   == 2    \* frames that make up one buffer_size of audio
QwenElapsed   == 1    \* seconds that pass in one behaviour of SpecQwen
AsrFrames     == 102  \* feed_audio calls in one behaviour of SpecAsr
AsrIters      == 3    \* frames the worker takes in one behaviour of SpecAsr
RetryFrames   == 12   \* feed_audio calls in one behaviour of SpecAsrRetry
RetryIters    == 12   \* frames the worker takes in one behaviour of SpecAsrRetry

Threads == 1..NumThreads

\* the threads that can be inside find_similar_keywords of one matcher: the
\* callback thread of the recognition session and that of the session a
\* reconnect replaced, which delivers one late transcript
Callers == {"session", "stale"}

-----------------------------------------------------------------------------
(* Texts and keywords *)

K1 == <<"a", "b">>
K2 == <<"c">>

KeywordLists == { <<K1>>, <<K1, K2>> }

ContainsAsPrefix(t, kw) ==
    Len(kw) <= Len(t) /\ SubSeq(t, 1, Len(kw)) = kw

\* `keyword in text`: the keyword occurs as a contiguous substring
Contains(t, kw) ==
    \E i \in 1..(Len(t) - Len(kw) + 1) : SubSeq(t, i, i + Len(kw) - 1) = kw

\* the exact-match loop: the configured keywords found in t, in list order
ExactMatches(kws, t) ==
    LET Hit(kw) == Contains(t, kw)
    IN  SelectSeq(kws, Hit)

\* what find_similar_keywords may return: the embedding backend is remote, so
\* any selection of the configured keywords is possible
SemanticMatches(kws) ==
    { LET Pick(kw) == kw \in S IN SelectSeq(kws, Pick) :
        S \in SUBSET { kws[i] : i \in 1..Len(kws) } }

\* the outcomes of the two matching stages for a non-empty text:
\* <<detected_keywords, is_semantic_match>>
MatchOutcomes(kws, sem, t) ==
    LET exact == ExactMatches(kws, t)
    IN  IF exact # <<>> \/ ~sem
        THEN { <<exact, FALSE>> }
        ELSE { IF m # <<>> THEN <<m, TRUE>> ELSE <<exact, FALSE>> :
                 m \in SemanticMatches(kws) }

-----------------------------------------------------------------------------
(* The cooldown gate *)

InCooldownInclusive(c, now, last) == now - last <= c

InCooldownOffByOne(c, now, last) == c > 0 /\ now - last < c - 1

\* `self.cooldown > 0 and current_time - self.last_alert_time < self.cooldown`
InCooldown(c, now, last) == c > 0 /\ now - last < c

LockIgnored(l) == TRUE

\* `with self.lock:` can be entered
LockFree(l) == l = 0

-----------------------------------------------------------------------------
(* Spec: concurrent check_and_alert calls on one KeywordAlert *)

GateTexts ==
    { <<>>, <<"a", "x", "b">>, <<"c", "a", "b">> }

\* no thread is inside check_and_alert
NoCallers ==
    /\ pc = [t \in Threads |-> "idle"]
    /\ text = [t \in Threads |-> <<>>]
    /\ detected_keywords = [t \in Threads |-> <<>>]
    /\ is_semantic_match = [t \in Threads |-> FALSE]
    /\ current_time = [t \in Threads |-> 0]
    /\ outcome = [t \in Threads |-> "none"]
    /\ calls = 0

\* no ClassroomMonitor
NoPipeline ==
    /\ mode = "none"
    /\ text_buffer = <<>>
    /\ events = <<>>
    /\ web_alerts = <<>>

\* lines 43-48 of llm_text_detector.py: a detector that has not been fed
NoLlmDetector ==
    /\ llm_buffer = <<>>
    /\ llm_last_alert_time = 0
    /\ llm_pc = "sleep"
    /\ llm_text = <<>>
    /\ llm_result = [parsed |-> FALSE, detected |-> FALSE, keywords |-> <<>>,
                     schema |-> FALSE]

\* dashscope_asr.py:24-33: a DashScopeASR that has not been started
NewClient ==
    /\ is_running = FALSE
    /\ connection_alive = FALSE
    /\ reconnect_count = 0
    /\ recognition = 0
    /\ audio_queue = <<>>
    /\ sessions = 0
    /\ session_state = "none"
    /\ fed = 0
    /\ stopped = FALSE
    /\ w_pc = "unstarted"
    /\ w_frame = 0
    /\ w_iters = 0
    /\ dropped = 0
    /\ oldest_at_drop = 0
    /\ oldest_fate = "none"

\* monitor_web.py:273 and llm_text_detector.py:90: start_async has stored the
\* running event loop and started the detector; stop_async has not been called
MonitorStarted ==
    /\ loop_running = TRUE
    /\ llm_running = TRUE
    /\ llm_stop_pc = "idle"
    /\ beeps = 0
    /\ stop_returned = FALSE

\* audio_detector.py:43-60: a Qwen2AudioDetector that has not been started
NoQwen ==
    /\ audio_buffer = 0
    /\ buffer_lock = "free"
    /\ qa_running = FALSE
    /\ qa_pc = "unstarted"
    /\ qa_stop_pc = "idle"
    /\ fa_pc = "idle"
    /\ qa_fed = 0
    /\ qa_last_alert_time = 0

\* monitor_web.py:26-149: a ClassroomMonitor whose start() has not been
\* called
NoRun ==
    /\ mon_running = FALSE
    /\ restart_requested = FALSE
    /\ ws_open = FALSE
    /\ web_up = FALSE
    /\ sa_pc = "init"
    /\ st_pc = [who \in {"restart", "finally"} |-> "idle"]
    /\ interrupted = FALSE
    /\ runs = 0
    /\ comp = [c \in {"asr_engine", "audio_detector", "llm_detector"} |->
                 "none"]
    /\ forwarded = 0

\* no thread is inside _on_text_result
NoBuf ==
    /\ cb_pc = [t \in Callers |-> "idle"]
    /\ cb_frag = [t \in Callers |-> <<>>]
    /\ cb_read = [t \in Callers |-> <<>>]
    /\ cb_ok = [t \in Callers |-> FALSE]
    /\ cb_calls = 0

\* the backend has delivered no event
NoEvents ==
    /\ ev_text = <<>>
    /\ ev_count = 0

\* start() has not been called a second time
NoWorker2 ==
    /\ w2_pc = "unstarted"
    /\ w2_frame = 0

\* llm_text_detector.py:48: nobody holds _buffer_lock or is inside feed_text
NoFeeder ==
    /\ llm_lock = "free"
    /\ feed_pc = "idle"
    /\ feed_frag = <<>>
    /\ feed_calls = 0

\* no frame and no transcript has reached the monitor
NoMode ==
    /\ fed_to = {}
    /\ recognitions = <<>>

\* _extract_phrases has not been called with a text
NoPhrases ==
    /\ xp_text = <<>>
    /\ xp_phrases = <<>>

\* audio_detector.py:48: audio_buffer = bytes()
NoWindows ==
    /\ qa_bytes = <<>>
    /\ qa_windows = <<>>

NoMore ==
    /\ NoMode
    /\ NoPhrases
    /\ NoWindows
    /\ cache_lock = "free"
    /\ qa_lock = "free"

\* the parts of the program a specification leaves at rest
NoExt ==
    /\ NoRun
    /\ NoBuf
    /\ NoEvents
    /\ NoWorker2
    /\ send_result = "none"
    /\ NoFeeder
    /\ last_fetch = [t \in Callers |-> "none"]
    /\ NoMore

\* a matcher that has not been built (enable_semantic False or no api_key,
\* keyword_alert.py:61) and that nobody calls
NoCaller == [t \in Callers |-> "idle"]

NewMatcher ==
    /\ sm_enabled = FALSE
    /\ keyword_embeddings = <<>>
    /\ phrase_embedding_cache = <<>>
    /\ inserted = 0
    /\ evicted = 0
    /\ sm_pc = NoCaller
    /\ sm_results = [t \in Callers |-> <<>>]
    /\ sm_chunks = [t \in Callers |-> <<>>]
    /\ sm_saving = [t \in Callers |-> 0]
    /\ sm_raced = [t \in Callers |-> FALSE]
    /\ last_by = "none"
    /\ sm_matches = [t \in Callers |-> <<>>]
    /\ stale_called = FALSE

Init ==
    /\ keywords \in KeywordLists
    /\ cooldown \in 0..MaxCooldown
    /\ semantic_enabled \in BOOLEAN
    /\ last_alert_time = 0
    /\ lock = 0
    /\ clock = StartTime
    /\ NoCallers
    /\ accepted = <<>>
    /\ alerts = 0
    /\ NoPipeline
    /\ NoLlmDetector
    /\ NewClient
    /\ MonitorStarted
    /\ NoQwen
    /\ NoExt
    /\ NewMatcher

\* time passes
Tick(limit) ==
    /\ clock < limit
    /\ clock' = clock + 1
    /\ UNCHANGED <<gateVars, threadVars, logVars, pipeVars, llmVars,
                   clientVars, matcherVars, monitorVars, qwenVars, extVars>>

\* a step of a thread inside check_and_alert touches nothing else
GateStep == UNCHANGED <<pipeVars, llmVars, clientVars, matcherVars,
                        monitorVars, qwenVars, extVars>>

\* a call returns: `how` tells which return statement ran
Return(t, how) ==
    /\ pc' = [pc EXCEPT ![t] = "idle"]
    /\ outcome' = [outcome EXCEPT ![t] = how]
    /\ is_semantic_match' = [is_semantic_match EXCEPT ![t] = FALSE]
    /\ current_time' = [current_time EXCEPT ![t] = 0]

\* the value check_and_alert returned
ReturnValue(t) == outcome[t] = "accepted"

\* lines 133-154: a thread calls check_and_alert(txt); empty text and text
\* without a detected keyword return False before the lock is touched
Call(t) ==
    /\ GateStep
    /\ pc[t] = "idle"
    /\ calls < MaxCalls
    /\ calls' = calls + 1
    /\ \E txt \in GateTexts :
         /\ text' = [text EXCEPT ![t] = txt]
         /\ IF txt = <<>>
            THEN /\ Return(t, "empty")
                 /\ detected_keywords' = [detected_keywords EXCEPT ![t] = <<>>]
            ELSE \E o \in MatchOutcomes(keywords, semantic_enabled, txt) :
                   /\ detected_keywords' = [detected_keywords EXCEPT ![t] = o[1]]
                   /\ IF o[1] = <<>>
                      THEN Return(t, "nomatch")
                      ELSE /\ is_semantic_match' =
                                [is_semantic_match EXCEPT ![t] = o[2]]
                           /\ pc' = [pc EXCEPT ![t] = "acquire"]
                           /\ outcome' = [outcome EXCEPT ![t] = "none"]
                           /\ UNCHANGED current_time
    /\ UNCHANGED <<gateVars, clock, logVars>>

\* lines 157-158: with self.lock: current_time = time.time()
Enter(t) ==
    /\ GateStep
    /\ pc[t] = "acquire"
    /\ LockFree(lock)
    /\ lock' = t
    /\ current_time' = [current_time EXCEPT ![t] = clock]
    /\ pc' = [pc EXCEPT ![t] = "check"]
    /\ UNCHANGED <<keywords, cooldown, semantic_enabled, last_alert_time, clock,
                   text, detected_keywords, is_semantic_match, outcome, calls,
                   logVars>>

\* a rejected call that stamps the time of its attempt
StampedAnyway(last, now) == now

\* lines 160-162: the timestamp a call rejected by cooldown leaves behind;
\* `return False` comes before the assignment of line 164
AfterRejected(last, now) == last

\* lines 159-162: the cooldown test; a rejected call leaves the with block
CheckCooldown(t) ==
    /\ GateStep
    /\ pc[t] = "check"
    /\ IF InCooldown(cooldown, current_time[t], last_alert_time)
       THEN /\ lock' = 0
            /\ last_alert_time' =
                  AfterRejected(last_alert_time, current_time[t])
            /\ Return(t, "cooldown")
       ELSE /\ pc' = [pc EXCEPT ![t] = "update"]
            /\ UNCHANGED <<lock, last_alert_time, outcome, is_semantic_match,
                           current_time>>
    /\ UNCHANGED <<keywords, cooldown, semantic_enabled, clock,
                   text, detected_keywords, calls, logVars>>

\* line 164: self.last_alert_time = current_time, then the with block ends
UpdateLast(t) ==
    /\ GateStep
    /\ pc[t] = "update"
    /\ last_alert_time' = current_time[t]
    /\ accepted' = Append(accepted, current_time[t])
    /\ lock' = 0
    /\ pc' = [pc EXCEPT ![t] = "trigger"]
    /\ UNCHANGED <<keywords, cooldown, semantic_enabled, clock, text,
                   detected_keywords, is_semantic_match, current_time, outcome,
                   calls, alerts>>

\* lines 167-168: self._trigger_alert(...); return True
Trigger(t) ==
    /\ GateStep
    /\ pc[t] = "trigger"
    /\ alerts' = alerts + 1
    /\ Return(t, "accepted")
    /\ UNCHANGED <<gateVars, clock, text, detected_keywords, calls, accepted>>

Next ==
    \/ Tick(StartTime + MaxElapsed)
    \/ \E t \in Threads : Call(t)
    \/ \E t \in Threads : Enter(t)
    \/ \E t \in Threads : CheckCooldown(t)
    \/ \E t \in Threads : UpdateLast(t)
    \/ \E t \in Threads : Trigger(t)

Spec == Init /\ [][Next]_vars

-----------------------------------------------------------------------------
(* Properties of the cooldown gate, checked under Spec *)

Abs(x) == IF x < 0 THEN -x ELSE x

InFlight(t) == pc[t] \in {"update", "trigger"}

\* C1: with cooldown > 0, no two accepted calls record acceptance timestamps
\* (the values stored in last_alert_time) less than cooldown seconds apart,
\* whatever the interleaving of the calling threads.
C1_AcceptedApart ==
    cooldown > 0 =>
        \A i, j \in DOMAIN accepted :
            i # j => Abs(accepted[i] - accepted[j]) >= cooldown

\* two alerts have been accepted under a positive cooldown
C1_Witness == cooldown > 0 /\ Len(accepted) >= 2

\* C2: the cooldown test and the update of last_alert_time form one critical
\* section: two threads are never inside it together, and of two concurrent
\* calls with matching text inside one cooldown window at most one has passed
\* the test.
C2_AtomicGate ==
    \A t1, t2 \in Threads :
        t1 # t2 =>
            /\ ~(pc[t1] \in {"check", "update"} /\ pc[t2] \in {"check", "update"})
            /\ (cooldown > 0 /\ InFlight(t1) /\ InFlight(t2)
                  => Abs(current_time[t1] - current_time[t2]) >= cooldown)

\* one call is being accepted while a concurrent call with matching text has
\* just been rejected inside the same cooldown window
C2_Witness ==
    \E t1, t2 \in Threads :
        /\ t1 # t2
        /\ cooldown > 0
        /\ pc[t1] = "trigger"
        /\ outcome[t2] = "cooldown"
        /\ detected_keywords[t2] # <<>>
        /\ clock - last_alert_time < cooldown

\* C4: with cooldown = 0 no call that detected a keyword is rejected: every
\* one of them is accepted, so the alerts triggered together with the calls
\* still on their way account for every call that detected a keyword.
C4_ZeroCooldownAccepts ==
    cooldown = 0 =>
        /\ \A t \in Threads : outcome[t] # "cooldown"
        /\ \A t \in Threads :
             (pc[t] = "idle" /\ outcome[t] \notin {"none", "empty"}
              /\ detected_keywords[t] # <<>>) => ReturnValue(t)

\* with cooldown = 0 a second alert is accepted at the very timestamp of the
\* previous one
C4_Witness ==
    /\ cooldown = 0
    /\ Len(accepted) >= 2
    /\ accepted[Len(accepted)] = accepted[Len(accepted) - 1]
    /\ \E t \in Threads : ReturnValue(t)

\* thread t has finished a call of check_and_alert
Finished(t) == pc[t] = "idle" /\ outcome[t] # "none"

Listed(kws, kw) == \E j \in DOMAIN kws : kws[j] = kw

\* kw occurs in t at some offset, character by character
OccursIn(t, kw) ==
    \E off \in 0..Len(t) :
        /\ off + Len(kw) <= Len(t)
        /\ \A k \in 1..Len(kw) : t[off + k] = kw[k]

\* C8 as claimed: a finished call whose non-empty text contains a configured
\* keyword as a contiguous substring has returned True with that keyword in
\* its detected list.
C8_Claimed ==
    \A t \in Threads :
        \A i \in DOMAIN keywords :
            (Finished(t) /\ text[t] # <<>> /\ OccursIn(text[t], keywords[i]))
            => /\ ReturnValue(t)
               /\ Listed(detected_keywords[t], keywords[i])

\* C8 as amended: such a call always has the keyword in its detected list and
\* reaches the cooldown gate; it returns True unless the previous alert was
\* accepted less than cooldown seconds earlier (cooldown > 0), and exactly
\* then it returns False.
C8_MatchUnlessCooldown ==
    [][ \A t \in Threads :
          /\ \A i \in DOMAIN keywords :
               (text'[t] # <<>> /\ OccursIn(text'[t], keywords[i])
                /\ outcome'[t] # "none" /\ pc'[t] = "idle")
               => /\ Listed(detected_keywords'[t], keywords[i])
                  /\ outcome'[t] \in {"accepted", "cooldown"}
          /\ (pc[t] = "check" /\ pc'[t] = "idle")
               => /\ outcome'[t] = "cooldown"
                  /\ cooldown > 0
                  /\ current_time[t] - last_alert_time < cooldown
          /\ (pc[t] = "check" /\ pc'[t] = "update")
               => ~(cooldown > 0
                    /\ current_time[t] - last_alert_time < cooldown)
          /\ (pc[t] = "trigger" /\ pc'[t] = "idle")
               => outcome'[t] = "accepted" ]_vars

\* a call whose text contains a configured keyword was rejected by cooldown
C8_Witness ==
    \E t \in Threads :
        /\ outcome[t] = "cooldown"
        /\ OccursIn(text[t], K1)
        /\ detected_keywords[t] # <<>>

-----------------------------------------------------------------------------
(* The transcript callbacks of ClassroomMonitor *)

ALERT_COOLDOWN == 5     \* config.py: ALERT_COOLDOWN, config_manager.py: "cooldown"
BUFFER_LIMIT   == 500   \* `len(self.text_buffer) > 500`
BUFFER_TAIL    == 200   \* `self.text_buffer[-200:]`

Please == <<"p", " ">>
KNow   == <<"a", "b", " ", "n">>
Long   == [i \in 1..LongLen |-> IF 2 * i <= LongLen THEN "x" ELSE "y"]
Huge   == [i \in 1..HugeLen |-> IF 2 * i <= HugeLen THEN "x" ELSE "y"]
HugeK  == K1 \o [i \in 1..(HugeLen - Len(K1)) |-> "z"]

\* the transcript fragments the recognition engine delivers (never empty:
\* dashscope_asr.py:77)
Fragments == { Please, KNow, Long }

\* fragments longer than the buffer limit, without and with a keyword
HugeFragments == { Please, Huge, HugeK }

\* a buffer longer than 500 cut to its first 200 characters
TrimBufferHead(s) ==
    IF Len(s) > BUFFER_LIMIT THEN SubSeq(s, 1, BUFFER_TAIL) ELSE s

\* a buffer cut as soon as it is longer than 200
TrimBufferEager(s) ==
    IF Len(s) > BUFFER_TAIL
    THEN SubSeq(s, Len(s) - BUFFER_TAIL + 1, Len(s))
    ELSE s

\* lines 176-177 of monitor_web.py, 62-63 of monitor.py: keep the last 200
\* characters of a buffer longer than 500
TrimBuffer(s) ==
    IF Len(s) > BUFFER_LIMIT
    THEN SubSeq(s, Len(s) - BUFFER_TAIL + 1, Len(s))
    ELSE s

\* check_and_alert(txt) run to completion by the only thread that calls it:
\* o is the outcome of matching, ok the value returned
CheckAndAlert(txt, o, ok) ==
    /\ ok = (txt # <<>> /\ o[1] # <<>>
             /\ ~InCooldown(cooldown, clock, last_alert_time))
    /\ IF ok
       THEN /\ last_alert_time' = clock
            /\ accepted' = Append(accepted, clock)
            /\ alerts' = alerts + 1
       ELSE UNCHANGED <<last_alert_time, accepted, alerts>>
    /\ UNCHANGED <<keywords, cooldown, semantic_enabled, lock, threadVars>>

\* monitor_web.py:240-243, _schedule_async(web_server.send_alert(...)): the
\* coroutine is handed to the event loop only while the loop is running
ScheduleAsync(sent, msg) ==
    IF loop_running THEN Append(sent, msg) ELSE sent

Event(frag, ok, o) ==
    [text |-> frag, time |-> clock, alerted |-> ok, keywords |-> o[1]]

\* monitor_web.py:169-177 (both callbacks): the buffer after the keyword check
BufferAfterCheck(detected, buf) ==
    IF detected THEN <<>> ELSE TrimBuffer(buf)

\* events that carry no tag in any mode
Untagged(md, strategy) == "none"

\* monitor_web.py:162, 185 and 190: `source = <strategy> if self.debug_mode
\* else None`
Tag(md, strategy) == IF md = "debug" THEN strategy ELSE "none"

\* monitor_web.py:151-177, _on_text_result called with the text frag by the
\* only thread that calls it
TextResult(frag) ==
    LET buf == text_buffer \o frag
    IN  \E o \in MatchOutcomes(keywords, semantic_enabled, buf) :
        \E ok \in BOOLEAN :
          /\ CheckAndAlert(buf, o, ok)
          /\ events' = Append(events, Event(frag, ok, o))
          /\ web_alerts' =
               IF ok
               THEN ScheduleAsync(web_alerts,
                           [source |-> Tag(mode, "asr"),
                            keywords |-> ExactMatches(keywords, buf)])
               ELSE web_alerts
          /\ text_buffer' = BufferAfterCheck(ok, buf)

\* monitor_web.py:151-177, _on_text_result
OnTextResult(limit, frags) ==
    /\ mode = "asr"
    /\ Len(events) < limit
    /\ \E frag \in frags : TextResult(frag)
    /\ UNCHANGED <<clock, mode, llmVars, clientVars, matcherVars, monitorVars,
                   qwenVars, extVars>>

\* monitor.py:49-63, _on_text_result: the return value of check_and_alert
\* is not used
OnTextResultConsole(limit, frags) ==
    /\ mode = "console"
    /\ Len(events) < limit
    /\ \E frag \in frags :
         LET buf == text_buffer \o frag
         IN  \E o \in MatchOutcomes(keywords, semantic_enabled, buf) :
             \E ok \in BOOLEAN :
               /\ CheckAndAlert(buf, o, ok)
               /\ events' = Append(events, Event(frag, ok, o))
               /\ text_buffer' = TrimBuffer(buf)
    /\ UNCHANGED <<clock, mode, web_alerts, llmVars, clientVars, matcherVars,
                   monitorVars, qwenVars, extVars>>

\* the pipeline of monitor_web.py in "asr" mode, or the one of monitor.py
\* (api_key is not passed there, so semantic matching is off)
InitPipe ==
    /\ keywords = <<K1>>
    /\ cooldown \in {0, ALERT_COOLDOWN}
    /\ mode \in {"asr", "console"}
    /\ semantic_enabled \in (IF mode = "asr" THEN BOOLEAN ELSE {FALSE})
    /\ last_alert_time = 0
    /\ lock = 0
    /\ clock = StartTime
    /\ NoCallers
    /\ accepted = <<>>
    /\ alerts = 0
    /\ text_buffer = <<>>
    /\ events = <<>>
    /\ web_alerts = <<>>
    /\ NoLlmDetector
    /\ NewClient
    /\ MonitorStarted
    /\ NoQwen
    /\ NoExt
    /\ NewMatcher

NextPipe ==
    \/ Tick(StartTime + PipeElapsed)
    \/ OnTextResult(PipeFragments, Fragments)
    \/ OnTextResultConsole(PipeFragments, Fragments)

SpecPipe == InitPipe /\ [][NextPipe]_vars

\* the same callbacks, given fragments longer than the buffer limit
NextTrim ==
    \/ Tick(StartTime + TrimElapsed)
    \/ OnTextResult(TrimCalls, HugeFragments)
    \/ OnTextResultConsole(TrimCalls, HugeFragments)

SpecTrim == InitPipe /\ [][NextTrim]_vars

-----------------------------------------------------------------------------
(* Properties of the transcript callbacks, checked under SpecPipe *)

\* C9: with keywords {K}, cooldown 5 s and exact matching, after the
\* fragments "please " and "K now" exactly one alert has fired, with keywords
\* [K]; a third fragment containing K produces no further alert when it
\* arrives less than 5 s after that alert (2 s), and a second alert when it
\* arrives 5 s or more after it (6 s).
C9_Scenario ==
    (/\ keywords = <<K1>>
     /\ cooldown = ALERT_COOLDOWN
     /\ ~semantic_enabled
     /\ Len(events) >= 2
     /\ events[1].text = Please
     /\ events[2].text = KNow)
    => /\ ~events[1].alerted
       /\ events[2].alerted
       /\ events[2].keywords = <<K1>>
       /\ Len(events) = 2 => alerts = 1 /\ accepted = <<events[2].time>>
       /\ (mode = "asr" /\ Len(events) = 2)
            => web_alerts = << [source |-> "none", keywords |-> <<K1>>] >>
       /\ (Len(events) >= 3 /\ OccursIn(events[3].text, K1))
            => LET dt == events[3].time - events[2].time
               IN  /\ dt < ALERT_COOLDOWN
                        => ~events[3].alerted /\ (Len(events) = 3 => alerts = 1)
                   /\ dt >= ALERT_COOLDOWN
                        => events[3].alerted /\ (Len(events) = 3 => alerts = 2)

\* the scenario has run to its second alert, 6 s after the first
C9_Witness ==
    /\ keywords = <<K1>>
    /\ cooldown = ALERT_COOLDOWN
    /\ ~semantic_enabled
    /\ Len(events) = 3
    /\ events[1].text = Please
    /\ events[2].text = KNow
    /\ events[3].text = KNow
    /\ events[3].time = events[2].time + 6
    /\ events[3].alerted
    /\ alerts = 2

\* C10 as claimed: right after a transcript callback whose alert was accepted
\* the text buffer is empty, and after one whose match was rejected by
\* cooldown the buffer is the old buffer with the fragment appended.
C10_Claimed ==
    [][ Len(events') > Len(events) =>
          LET e == events'[Len(events')]
          IN  /\ e.alerted => text_buffer' = <<>>
              /\ (~e.alerted /\ e.keywords # <<>>)
                   => text_buffer' = text_buffer \o e.text ]_vars

\* the last n characters of s, character by character
Suffix(s, n) == [i \in 1..n |-> s[Len(s) - n + i]]

\* C11 as claimed: after every transcript callback the buffer is at most 500
\* long, and whenever the append made it longer than 500 it is exactly the
\* last 200 characters of the appended buffer.
C11_Claimed ==
    [][ Len(events') > Len(events) =>
          LET e   == events'[Len(events')]
              app == text_buffer \o e.text
          IN  /\ Len(text_buffer') <= BUFFER_LIMIT
              /\ Len(app) > BUFFER_LIMIT
                   => text_buffer' = Suffix(app, BUFFER_TAIL) ]_vars

\* C11: after every transcript callback the buffer is at most 500 long.  An
\* append that makes it longer than 500 leaves exactly the last 200
\* characters of the appended buffer, except in monitor_web.py when the
\* callback's alert was accepted, which leaves it empty; an append that
\* keeps it within 500 never cuts it, so after a cut to 200 the next cut
\* needs more than 300 further characters.
C11_TrimToTail ==
    [][ Len(events') > Len(events) =>
          LET e       == events'[Len(events')]
              app     == text_buffer \o e.text
              cleared == mode = "asr" /\ e.alerted
          IN  /\ Len(text_buffer') <= BUFFER_LIMIT
              /\ cleared => text_buffer' = <<>>
              /\ (~cleared /\ Len(app) > BUFFER_LIMIT)
                   => text_buffer' = Suffix(app, BUFFER_TAIL)
              /\ (~cleared /\ Len(app) <= BUFFER_LIMIT)
                   => text_buffer' = app ]_vars

\* two long fragments have been cut to the last 200 characters, and the cut
\* buffer has taken a further fragment without being cut again
C11_Witness ==
    /\ Len(events) = 3
    /\ events[1].text = Long
    /\ events[2].text = Long
    /\ events[3].text = Please
    /\ text_buffer = Suffix(Long \o Long, BUFFER_TAIL) \o Please

-----------------------------------------------------------------------------
(* Properties of the buffer limit, checked under SpecTrim *)

\* C12 as claimed: a single fragment of 600 characters appended to an empty
\* buffer leaves exactly the last 200 characters of the fragment.
C12_Claimed ==
    [][ (Len(events') > Len(events) /\ text_buffer = <<>>
         /\ Len(events'[Len(events')].text) = HugeLen)
        => text_buffer' = Suffix(events'[Len(events')].text, BUFFER_TAIL) ]_vars

\* C12: a single fragment of 600 characters appended to an empty buffer
\* leaves exactly the last 200 characters of the fragment, unless the
\* fragment raised an alert that monitor_web.py accepted, which leaves the
\* buffer empty.
C12_LongFragment ==
    [][ (Len(events') > Len(events) /\ text_buffer = <<>>
         /\ Len(events'[Len(events')].text) = HugeLen)
        => LET e == events'[Len(events')]
           IN  text_buffer' = IF mode = "asr" /\ e.alerted
                              THEN <<>>
                              ELSE Suffix(e.text, BUFFER_TAIL) ]_vars

\* the long fragment was the first one and its last 200 characters are kept
C12_Witness ==
    /\ Len(events) = 1
    /\ events[1].text = Huge
    /\ Len(text_buffer) = BUFFER_TAIL
    /\ text_buffer = Suffix(Huge, BUFFER_TAIL)

-----------------------------------------------------------------------------
(* ASR + LLM mode: the transcript callback and the LLMTextDetector loop *)

IsSpace(c) == c = " "

RECURSIVE StripLeft(_)
StripLeft(s) ==
    IF s # <<>> /\ IsSpace(Head(s)) THEN StripLeft(Tail(s)) ELSE s

RECURSIVE StripRight(_)
StripRight(s) ==
    IF s # <<>> /\ IsSpace(s[Len(s)])
    THEN StripRight(SubSeq(s, 1, Len(s) - 1))
    ELSE s

\* str.strip()
Strip(s) == StripRight(StripLeft(s))

\* the characters of s that are not whitespace
NonSpace(s) == Len(SelectSeq(s, LAMBDA c : ~IsSpace(c)))

\* a text that is dropped unless it has more than 2 such characters
TooShortByCount(s) == NonSpace(s) <= 2

\* line 111: `not text or len(text.strip()) < 2`
TooShort(s) == s = <<>> \/ Len(Strip(s)) < 2

\* what _analyze_text may return: None (API error, exception, unparsable
\* answer) or the parsed answer of the model.  `detected` is the truth
\* value of result.get("detected") (line 117); `schema` tells whether the
\* answer has the fields and types the prompt asks for (lines 63-66)
NoResult ==
    [parsed |-> FALSE, detected |-> FALSE, keywords |-> <<>>,
     schema |-> FALSE]

\* json.loads (line 165) accepts an answer such as
\* {"detected": "false", "keywords": []}, whose non-empty string is true
\* in the test of line 117
Malformed ==
    [parsed |-> TRUE, detected |-> TRUE, keywords |-> <<>>, schema |-> FALSE]

LlmResults(kws) ==
    { NoResult, Malformed,
      [parsed |-> TRUE, detected |-> FALSE, keywords |-> <<>>,
       schema |-> TRUE] }
    \cup { [parsed |-> TRUE, detected |-> TRUE, keywords |-> m,
             schema |-> TRUE] : m \in SemanticMatches(kws) }

\* line 123: `current_time - self._last_alert_time >= self.cooldown`
LlmCooldownPassed(c, now, last) == now - last >= c

\* monitor_web.py:199-226, _on_asr_llm_text; the transcripts come from the
\* session that stop_async stops (line 349) before it stops the detector
OnAsrLlmText(limit) ==
    /\ mode = "asr+llm"
    /\ llm_stop_pc = "idle"
    /\ Len(events) < limit
    /\ \E frag \in Fragments :
         LET buf == text_buffer \o frag
         IN  \E o \in MatchOutcomes(keywords, semantic_enabled, buf) :
             \E ok \in BOOLEAN :
               /\ CheckAndAlert(buf, o, ok)
               /\ events' = Append(events, Event(frag, ok, o))
               /\ web_alerts' =
                    IF ok
                    THEN ScheduleAsync(web_alerts,
                                [source |-> "asr",
                                 keywords |-> ExactMatches(keywords, buf)])
                    ELSE web_alerts
               /\ llm_buffer' = llm_buffer \o frag
               /\ text_buffer' = BufferAfterCheck(ok, buf)
    /\ UNCHANGED <<clock, mode, llm_last_alert_time, llm_pc, llm_text,
                   llm_result, clientVars, matcherVars, monitorVars,
                   qwenVars, extVars>>

\* line 103, `while self._running`, read at the top of the loop only: where
\* the thread is once an iteration has ended
LoopTest == IF llm_running THEN "sleep" ELSE "exited"

\* llm_text_detector.py:104-112: after the sleep, take and empty the buffer
LlmDrain ==
    /\ mode = "asr+llm"
    /\ llm_pc = "sleep"
    /\ llm_buffer' = <<>>
    /\ IF TooShort(llm_buffer)
       THEN /\ llm_pc' = LoopTest
            /\ UNCHANGED llm_text
       ELSE /\ llm_pc' = "analyze"
            /\ llm_text' = llm_buffer
    /\ UNCHANGED <<gateVars, clock, threadVars, logVars, pipeVars,
                   llm_last_alert_time, llm_result, clientVars, matcherVars,
                   monitorVars, qwenVars, extVars>>

\* llm_text_detector.py:116-119, 133-136: the classification request
LlmAnalyze ==
    /\ llm_pc = "analyze"
    /\ \E r \in LlmResults(keywords) :
         IF r.parsed /\ r.detected
         THEN /\ llm_result' = r
              /\ llm_pc' = "alert"
              /\ UNCHANGED llm_text
         ELSE /\ llm_result' = NoResult
              /\ llm_pc' = LoopTest
              /\ llm_text' = <<>>
    /\ UNCHANGED <<gateVars, clock, threadVars, logVars, pipeVars,
                   llm_buffer, llm_last_alert_time, clientVars, matcherVars,
                   monitorVars, qwenVars, extVars>>

\* llm_text_detector.py:121-132 and monitor_web.py:228-238: the detector's
\* own cooldown test, then the alert callback _on_llm_alert, which schedules
\* the broadcast and beeps
LlmAlert ==
    /\ llm_pc = "alert"
    /\ IF LlmCooldownPassed(cooldown, clock, llm_last_alert_time)
       THEN /\ llm_last_alert_time' = clock
            /\ web_alerts' = ScheduleAsync(web_alerts,
                                    [source |-> "llm",
                                     keywords |-> llm_result.keywords])
            /\ beeps' = beeps + 1
       ELSE UNCHANGED <<llm_last_alert_time, web_alerts, beeps>>
    /\ llm_pc' = LoopTest
    /\ llm_text' = <<>>
    /\ llm_result' = NoResult
    /\ UNCHANGED <<gateVars, clock, threadVars, logVars, mode, text_buffer,
                   events, llm_buffer, clientVars, matcherVars, loop_running,
                   llm_running, llm_stop_pc, stop_returned, qwenVars, extVars>>

\* monitor_web.py:333-356, stop_async, up to llm_text_detector.py:97: the
\* servers and the ASR engine are stopped, then the detector's flag is cleared
StopAsync ==
    /\ mode = "asr+llm"
    /\ llm_stop_pc = "idle"
    /\ llm_running' = FALSE
    /\ llm_stop_pc' = "join"
    /\ UNCHANGED <<gateVars, clock, threadVars, logVars, pipeVars, llmVars,
                   clientVars, matcherVars, loop_running, beeps,
                   stop_returned, qwenVars, extVars>>

\* llm_text_detector.py:98-99, join(timeout=2): stop() returns when the
\* thread has exited or two seconds have passed, whichever is first
StopJoined ==
    /\ llm_stop_pc = "join"
    /\ llm_stop_pc' = "returned"
    /\ UNCHANGED <<gateVars, clock, threadVars, logVars, pipeVars, llmVars,
                   clientVars, matcherVars, loop_running, llm_running, beeps,
                   stop_returned, qwenVars, extVars>>

\* monitor_web.py:358-381: stop_async has returned and asyncio.run with it,
\* so the event loop is no longer running
LoopClosed ==
    /\ llm_stop_pc = "returned"
    /\ loop_running
    /\ loop_running' = FALSE
    /\ UNCHANGED <<gateVars, clock, threadVars, logVars, pipeVars, llmVars,
                   clientVars, matcherVars, llm_running, llm_stop_pc, beeps,
                   stop_returned, qwenVars, extVars>>

\* monitor_web.py:83-117: both detectors get config.keywords and
\* config.cooldown; the KeywordAlert is built with enable_semantic=False
InitLlm ==
    /\ keywords \in KeywordLists
    /\ cooldown \in {0, ALERT_COOLDOWN}
    /\ mode = "asr+llm"
    /\ semantic_enabled = FALSE
    /\ last_alert_time = 0
    /\ lock = 0
    /\ clock = StartTime
    /\ NoCallers
    /\ accepted = <<>>
    /\ alerts = 0
    /\ text_buffer = <<>>
    /\ events = <<>>
    /\ web_alerts = <<>>
    /\ NoLlmDetector
    /\ NewClient
    /\ MonitorStarted
    /\ NoQwen
    /\ NoExt
    /\ NewMatcher

NextLlm ==
    \/ Tick(StartTime + LlmElapsed)
    \/ OnAsrLlmText(LlmFragments)
    \/ LlmDrain
    \/ LlmAnalyze
    \/ LlmAlert

SpecLlm == InitLlm /\ [][NextLlm]_vars

\* the same pipeline while the monitor is stopped
NextStop ==
    \/ Tick(StartTime + LlmElapsed)
    \/ OnAsrLlmText(LlmFragments)
    \/ LlmDrain
    \/ LlmAnalyze
    \/ LlmAlert
    \/ StopAsync
    \/ StopJoined
    \/ LoopClosed

SpecStop == InitLlm /\ [][NextStop]_vars

\* C3 as claimed: in asr+llm mode the keyword alerts and the LLM alerts pass
\* one cooldown gate: an alert accepted from one strategy and an alert
\* accepted from the other are never less than cooldown seconds apart.
C3_Claimed ==
    (cooldown > 0 /\ llm_last_alert_time # 0)
    => \A i \in DOMAIN accepted :
         Abs(accepted[i] - llm_last_alert_time) >= cooldown

-----------------------------------------------------------------------------
(* DashScopeASR (src/asr/dashscope_asr.py).  feed_audio is called by the   *)
(* one thread that runs the audio server's event loop, the worker is the   *)
(* one thread start() creates, and the session's callbacks arrive from the *)
(* library at any time.  Frames are numbered in the order they are fed and *)
(* are never empty.                                                        *)

QUEUE_LIMIT   == 100
MAX_RECONNECT == 10

\* dashscope_asr.py:182 with the bound included
QueueHasRoomInclusive(n) == n <= QUEUE_LIMIT

\* dashscope_asr.py:182
QueueHasRoom(n) == n < QUEUE_LIMIT

\* dashscope_asr.py:118,124
MayReconnect(n) == n < MAX_RECONNECT

\* a queue.Queue that hands out the newest frame
GetNewest(q) == <<q[Len(q)], SubSeq(q, 1, Len(q) - 1)>>

\* dashscope_asr.py:29,108: queue.Queue.get takes the oldest frame
Get(q) == <<Head(q), Tail(q)>>

Queued(f) == \E i \in DOMAIN audio_queue : audio_queue[i] = f

\* frame f leaves the client: "sent" to the backend or "lost"
Leaves(f, how) ==
    oldest_fate' = IF f = oldest_at_drop /\ oldest_fate = "queued"
                   THEN how ELSE oldest_fate

\* a step of the client touches nothing else
ClientStep == UNCHANGED <<gateVars, clock, threadVars, logVars, pipeVars,
                          llmVars, matcherVars, monitorVars, qwenVars, extVars>>

\* start(): the worker thread begins
Start ==
    /\ ClientStep
    /\ w_pc = "unstarted"
    /\ w_pc' = "create"
    /\ UNCHANGED <<asrVars, w_frame, w_iters, frameVars>>

\* _recognition_worker, lines 99-103 and 137-140: the first session; when
\* _create_recognition raises the thread ends and is_running stays False
WorkerCreate ==
    /\ ClientStep
    /\ w_pc = "create"
    /\ \E ok \in BOOLEAN :
         IF ok
         THEN /\ sessions' = sessions + 1
              /\ recognition' = sessions + 1
              /\ session_state' = "started"
              /\ connection_alive' = TRUE
              /\ is_running' = TRUE
              /\ w_pc' = "get"
         ELSE /\ w_pc' = "done"
              /\ UNCHANGED <<sessions, recognition, session_state,
                             connection_alive, is_running>>
    /\ UNCHANGED <<reconnect_count, audio_queue, fed, stopped, w_frame,
                   w_iters, frameVars>>

\* lines 106-108 and 130-135: leave the loop once is_running is False,
\* else take the oldest frame
WorkerGet(limit) ==
    /\ ClientStep
    /\ w_pc = "get"
    /\ IF ~is_running
       THEN /\ w_pc' = "done"
            /\ session_state' = IF recognition # 0 THEN "closed"
                                ELSE session_state
            /\ UNCHANGED <<audio_queue, w_frame, w_iters>>
       ELSE /\ audio_queue # <<>>
            /\ w_iters < limit
            /\ w_frame' = Get(audio_queue)[1]
            /\ audio_queue' = Get(audio_queue)[2]
            /\ w_iters' = w_iters + 1
            /\ w_pc' = "send"
            /\ UNCHANGED session_state
    /\ UNCHANGED <<is_running, connection_alive, reconnect_count, recognition,
                   sessions, fed, stopped, frameVars>>

\* _reconnect, lines 144-153: count the attempt and stop the old session
BeginReconnect ==
    /\ reconnect_count' = reconnect_count + 1
    /\ recognition' = 0
    /\ session_state' = IF recognition # 0 THEN "closed" ELSE session_state
    /\ w_pc' = "rc_sleep"

\* any failure of send_audio_frame taken for a lost connection
IsTransportAny(result) == result # "ok"

\* lines 114-115: the exception's message contains "stopped" or "closed"
IsTransport(result) == result = "transport"

\* lines 110-125: what the worker does with the frame it took, when
\* send_audio_frame would end as `result`
SendFrame(result) ==
    /\ w_pc = "send"
    /\ w_frame' = 0
    /\ IF recognition # 0 /\ connection_alive
       THEN /\ result = "ok" => session_state \in {"started", "opened"}
            /\ Leaves(w_frame, IF result = "ok" THEN "sent" ELSE "lost")
            /\ IF IsTransport(result)
               THEN /\ connection_alive' = FALSE
                    /\ IF is_running /\ MayReconnect(reconnect_count)
                       THEN BeginReconnect
                       ELSE /\ w_pc' = "get"
                            /\ UNCHANGED <<reconnect_count, recognition,
                                           session_state>>
               ELSE /\ w_pc' = "get"
                    /\ UNCHANGED <<connection_alive, reconnect_count,
                                   recognition, session_state>>
       ELSE /\ Leaves(w_frame, "lost")
            /\ IF ~connection_alive /\ is_running
                  /\ MayReconnect(reconnect_count)
               THEN BeginReconnect
               ELSE /\ w_pc' = "get"
                    /\ UNCHANGED <<reconnect_count, recognition,
                                   session_state>>
            /\ UNCHANGED connection_alive
    /\ UNCHANGED <<is_running, audio_queue, sessions, fed, stopped, w_iters,
                   dropped, oldest_at_drop>>

\* lines 110-125
WorkerSend ==
    /\ ClientStep
    /\ \E result \in {"ok", "transport", "other"} : SendFrame(result)

\* a reconnect that keeps the backlog
FlushNothing(q) == q

\* lines 159-163: get_nowait until the queue is empty
Flush(q) == <<>>

\* _reconnect, lines 156-163: after the pause, throw the backlog away
RcFlush ==
    /\ ClientStep
    /\ w_pc = "rc_sleep"
    /\ audio_queue' = Flush(audio_queue)
    /\ oldest_fate' = IF Queued(oldest_at_drop) /\ oldest_fate = "queued"
                      THEN "lost" ELSE oldest_fate
    /\ w_pc' = "rc_create"
    /\ UNCHANGED <<is_running, connection_alive, reconnect_count, recognition,
                   sessions, session_state, fed, stopped, w_frame, w_iters,
                   dropped, oldest_at_drop>>

\* _reconnect, lines 165-170: a new session, or the failure to make one
RcCreate ==
    /\ ClientStep
    /\ w_pc = "rc_create"
    /\ \E ok \in BOOLEAN :
         IF ok
         THEN /\ sessions' = sessions + 1
              /\ recognition' = sessions + 1
              /\ session_state' = "started"
              /\ connection_alive' = TRUE
         ELSE /\ connection_alive' = FALSE
              /\ UNCHANGED <<sessions, recognition, session_state>>
    /\ w_pc' = "get"
    /\ UNCHANGED <<is_running, reconnect_count, audio_queue, fed, stopped,
                   w_frame, w_iters, frameVars>>

\* MyRecognitionCallback.on_open, lines 52-55
OnOpen ==
    /\ ClientStep
    /\ session_state = "started"
    /\ session_state' = "opened"
    /\ connection_alive' = TRUE
    /\ reconnect_count' = 0
    /\ UNCHANGED <<is_running, recognition, audio_queue, sessions, fed,
                   stopped, workerVars, frameVars>>

\* on_complete, on_error and on_close, lines 57-67
OnClose ==
    /\ ClientStep
    /\ session_state \in {"started", "opened"}
    /\ session_state' = "closed"
    /\ connection_alive' = FALSE
    /\ UNCHANGED <<is_running, reconnect_count, recognition, audio_queue,
                   sessions, fed, stopped, workerVars, frameVars>>

\* feed_audio, lines 178-183: nothing happens unless is_running; a call made
\* while running carries the next frame
FeedAudio(limit) ==
    /\ ClientStep
    /\ fed < limit
    /\ IF ~is_running
       THEN UNCHANGED <<fed, audio_queue, frameVars>>
       ELSE /\ fed' = fed + 1
            /\ IF QueueHasRoom(Len(audio_queue))
               THEN /\ audio_queue' = Append(audio_queue, fed + 1)
                    /\ UNCHANGED frameVars
               ELSE /\ UNCHANGED audio_queue
                    /\ dropped' = fed + 1
                    /\ oldest_at_drop' = Head(audio_queue)
                    /\ oldest_fate' = "queued"
    /\ UNCHANGED <<is_running, connection_alive, reconnect_count, recognition,
                   sessions, session_state, stopped, workerVars>>

\* stop(), lines 185-191
Stop ==
    /\ ClientStep
    /\ w_pc # "unstarted"
    /\ ~stopped
    /\ stopped' = TRUE
    /\ is_running' = FALSE
    /\ connection_alive' = FALSE
    /\ UNCHANGED <<reconnect_count, recognition, audio_queue, sessions,
                   session_state, fed, workerVars, frameVars>>

\* stop(), lines 189-191, join(timeout=3): stop() returns when the worker
\* has exited or three seconds have passed
StopReturned ==
    /\ stopped
    /\ ~stop_returned
    /\ stop_returned' = TRUE
    /\ UNCHANGED <<gateVars, clock, threadVars, logVars, pipeVars, llmVars,
                   clientVars, matcherVars, loop_running, llm_running,
                   llm_stop_pc, beeps, qwenVars, extVars>>

InitAsr ==
    /\ keywords = <<K1>>
    /\ cooldown = ALERT_COOLDOWN
    /\ semantic_enabled = FALSE
    /\ last_alert_time = 0
    /\ lock = 0
    /\ clock = StartTime
    /\ NoCallers
    /\ accepted = <<>>
    /\ alerts = 0
    /\ NoPipeline
    /\ NoLlmDetector
    /\ NewClient
    /\ MonitorStarted
    /\ NoQwen
    /\ NoExt
    /\ NewMatcher

\* a client that is fed more frames than its queue holds and is not stopped
NextAsr ==
    \/ Start
    \/ WorkerCreate
    \/ WorkerGet(AsrIters)
    \/ WorkerSend
    \/ RcFlush
    \/ RcCreate
    \/ OnOpen
    \/ OnClose
    \/ FeedAudio(AsrFrames)

SpecAsr == InitAsr /\ [][NextAsr]_vars

\* a client whose worker runs long enough to use up its reconnect budget
NextAsrRetry ==
    \/ Start
    \/ WorkerCreate
    \/ WorkerGet(RetryIters)
    \/ WorkerSend
    \/ RcFlush
    \/ RcCreate
    \/ OnOpen
    \/ OnClose
    \/ FeedAudio(RetryFrames)
    \/ Stop
    \/ StopReturned

SpecAsrRetry == InitAsr /\ [][NextAsrRetry]_vars

-----------------------------------------------------------------------------
(* Properties of the audio queue, checked under SpecAsr.                   *)

\* C5: the audio queue never holds more than 100 frames, and a feed_audio
\* call that finds it holding 100 drops the frame it carries and leaves the
\* queued frames as they were.
C5_QueueBounded ==
    /\ [](Len(audio_queue) <= QUEUE_LIMIT)
    /\ [][(fed' # fed /\ Len(audio_queue) >= QUEUE_LIMIT)
            => (audio_queue' = audio_queue /\ dropped' = fed')]_vars

\* a full queue has just turned a frame away
C5_Witness ==
    /\ Len(audio_queue) = QUEUE_LIMIT
    /\ dropped = fed
    /\ fed > QUEUE_LIMIT

\* C6 as stated: the frame that was the oldest in the queue when a frame was
\* dropped is delivered to the backend, so it is never discarded undelivered.
C6_Claimed == oldest_fate # "lost"

\* C6: frames leave the queue oldest first.  The frame that was the oldest
\* when a frame was dropped stays ahead of every frame enqueued after the
\* drop until the worker takes it, so when it is delivered it is delivered
\* before any of them; whether it is delivered is up to the connection.
C6_OldestFirst ==
    /\ \A i \in 1..(Len(audio_queue) - 1) :
         audio_queue[i] < audio_queue[i + 1]
    /\ (w_frame # 0 /\ audio_queue # <<>>) => w_frame < Head(audio_queue)
    /\ oldest_fate = "queued"
         => /\ oldest_at_drop < dropped
            /\ \/ w_frame = oldest_at_drop
               \/ audio_queue # <<>> /\ Head(audio_queue) = oldest_at_drop
    /\ (oldest_fate = "sent" /\ audio_queue # <<>>)
         => oldest_at_drop < Head(audio_queue)

\* the oldest frame at a drop was delivered and a frame enqueued after the
\* drop is waiting behind it
C6_Witness ==
    /\ oldest_fate = "sent"
    /\ dropped > QUEUE_LIMIT
    /\ Queued(dropped + 1)

-----------------------------------------------------------------------------
(* Properties of the reconnect budget, checked under SpecAsrRetry.         *)

\* the worker has used up its reconnect budget and the connection is down
GaveUp ==
    /\ reconnect_count = MAX_RECONNECT
    /\ ~connection_alive
    /\ session_state \notin {"started", "opened"}
    /\ w_pc = "get"

\* C7 as stated: once max_reconnect reconnects in a row have failed, the
\* client is Disconnected and no feed_audio call enqueues a frame.
C7_Claimed == [][GaveUp => Len(audio_queue') <= Len(audio_queue)]_vars

-----------------------------------------------------------------------------
(* SemanticMatcher (src/alert/semantic_matcher.py).  A phrase is named by  *)
(* the number of the cache entry made for it; a phrase that is not cached  *)
(* has no name until its vector is saved.  Vectors have two integer        *)
(* coordinates and a similarity is kept as <<dot, n>>, standing for        *)
(* dot / sqrt(n).                                                          *)

CACHE_MAX_SIZE == 300
BATCH_SIZE     == 10
MAX_PHRASES    == 20
THRESHOLD_PCT  == 65

\* the vectors the embedding model returns for the keywords and for phrases
KeywordVec(kw) == IF kw = K1 THEN <<1, 0>> ELSE <<0, 1>>

PhraseVecs == << <<3, 1>>, <<0, 0>>, <<1, 1>>, <<0, 2>>, <<-1, 0>>, <<1, 3>> >>

PhraseVec(p) == PhraseVecs[(p % Len(PhraseVecs)) + 1]

Dot(v, w) == v[1] * w[1] + v[2] * w[2]

\* _cosine_similarity, lines 155-161
CosineSimilarity(v, w) ==
    IF Dot(v, v) = 0 \/ Dot(w, w) = 0
    THEN <<0, 1>>
    ELSE <<Dot(v, w), Dot(v, v) * Dot(w, w)>>

\* line 187: similarity >= self.threshold
AtLeastThreshold(sim) ==
    /\ sim[1] > 0
    /\ 100 * 100 * sim[1] * sim[1] >= THRESHOLD_PCT * THRESHOLD_PCT * sim[2]

HasKeyword(matches, kw) == \E i \in DOMAIN matches : matches[i].keyword = kw

\* lines 187-190 without the test for a keyword already matched
AddMatchAgain(matches, v, kw) ==
    LET sim == CosineSimilarity(v, KeywordVec(kw))
    IN  IF AtLeastThreshold(sim)
        THEN Append(matches, [keyword |-> kw, score |-> sim])
        ELSE matches

\* lines 185-190: one phrase against one keyword
AddMatch(matches, v, kw) ==
    LET sim == CosineSimilarity(v, KeywordVec(kw))
    IN  IF AtLeastThreshold(sim) /\ ~HasKeyword(matches, kw)
        THEN Append(matches, [keyword |-> kw, score |-> sim])
        ELSE matches

\* lines 184-190: one phrase vector against every keyword that has a vector
RECURSIVE MatchKeywords(_, _, _)
MatchKeywords(matches, v, kws) ==
    IF kws = <<>> THEN matches
    ELSE MatchKeywords(AddMatch(matches, v, Head(kws)), v, Tail(kws))

\* lines 181-193: every resolved phrase vector, in the order of the dict
RECURSIVE MatchPhrases(_, _, _)
MatchPhrases(matches, vecs, kws) ==
    IF vecs = <<>> THEN matches
    ELSE MatchPhrases(MatchKeywords(matches, Head(vecs), kws),
                      Tail(vecs), kws)

InSeq(q, x) == \E i \in DOMAIN q : q[i] = x

\* a cache that is full only when it holds more than cache_max_size
CacheFullLate(c) == Len(c) > CACHE_MAX_SIZE

\* line 149
CacheFull(c) == Len(c) >= CACHE_MAX_SIZE

\* a full dict that moves an entry to the end when it is read
ReadMovesToEnd(c, p) ==
    IF Len(c) < CACHE_MAX_SIZE THEN c
    ELSE SelectSeq(c, LAMBDA x : x # p) \o <<p>>

\* lines 107-108: reading an entry of the dict leaves its order alone
Read(c, p) == c

RECURSIVE ReadAll(_, _)
ReadAll(c, hits) ==
    IF hits = <<>> THEN c ELSE ReadAll(Read(c, Head(hits)), Tail(hits))

\* lines 149-153: the cache after _save_phrase_cache(p, vec)
SavePhraseCache(c, p) ==
    LET kept == IF CacheFull(c) THEN Tail(c) ELSE c
    IN  IF InSeq(kept, p) THEN kept ELSE Append(kept, p)

\* every phrase that is not cached sent in one request
OneRequest(n) == IF n = 0 THEN <<>> ELSE <<n>>

\* line 117: the sizes of the batches of n phrases that are not cached
RECURSIVE ChunkSizes(_)
ChunkSizes(n) ==
    IF n = 0 THEN <<>>
    ELSE IF n <= BATCH_SIZE THEN <<n>>
    ELSE <<BATCH_SIZE>> \o ChunkSizes(n - BATCH_SIZE)

RemoveAt(q, i) == SubSeq(q, 1, i - 1) \o SubSeq(q, i + 1, Len(q))

\* the cached phrases a call may ask for again
HitLists(c) ==
    IF c = <<>> THEN { <<>> }
    ELSE { <<>>, <<Head(c)>> }

\* entries that callers in flight may still make
Pending ==
    LET n(t) == sm_saving[t]
                + (IF sm_chunks[t] = <<>> THEN 0
                   ELSE IF Len(sm_chunks[t]) = 1 THEN sm_chunks[t][1]
                   ELSE sm_chunks[t][1] + sm_chunks[t][2])
    IN  n("session") + n("stale")

\* a step of the matcher touches nothing else
MatcherStep == UNCHANGED <<gateVars, clock, threadVars, logVars, pipeVars,
                           llmVars, clientVars, monitorVars, qwenVars, extVars>>

\* find_similar_keywords, lines 170-179, and _get_embeddings_batch, lines
\* 99-113: the phrases of the text are looked up in the cache; fresh of them
\* are not cached
CallBody(t, limit, freshes) ==
    /\ sm_pc[t] = "idle"
    /\ t = "stale" => ~stale_called
    /\ stale_called' = (stale_called \/ t = "stale")
    /\ IF ~sm_enabled \/ keyword_embeddings = <<>>
       THEN /\ sm_pc' = [sm_pc EXCEPT ![t] = "return"]
            /\ UNCHANGED <<sm_results, sm_chunks, sm_raced,
                           phrase_embedding_cache>>
       ELSE \E hits \in HitLists(phrase_embedding_cache) : \E fresh \in freshes :
              /\ Len(hits) + fresh <= MAX_PHRASES
              /\ inserted + Pending + fresh <= limit
              /\ phrase_embedding_cache' = ReadAll(phrase_embedding_cache, hits)
              /\ sm_results' = [sm_results EXCEPT ![t] =
                                   [i \in DOMAIN hits |-> PhraseVec(hits[i])]]
              /\ sm_chunks' = [sm_chunks EXCEPT ![t] = ChunkSizes(fresh)]
              /\ sm_raced' = [sm_raced EXCEPT ![t] = FALSE]
              /\ sm_pc' = [sm_pc EXCEPT ![t] = IF fresh = 0 THEN "match"
                                               ELSE "fetch"]
    /\ UNCHANGED <<sm_enabled, keyword_embeddings, inserted, evicted,
                   sm_saving, sm_matches, last_by>>

SmCall(t, limit, freshes) == MatcherStep /\ CallBody(t, limit, freshes)

\* a failed request taken for a complete answer
FetchedAnyway(ok, n) == n

\* fetch_chunk, lines 119-133: the vectors a batch of n phrases yields; a
\* request that fails or raises yields none
Fetched(ok, n) == IF ok THEN n ELSE 0

\* lines 119-138: one of the batches in flight completes, with its vectors
\* or with none
ChunkDone(t, i, ok) ==
    /\ sm_pc[t] = "fetch"
    /\ sm_chunks' = [sm_chunks EXCEPT ![t] = RemoveAt(@, i)]
    /\ sm_saving' = [sm_saving EXCEPT ![t] = Fetched(ok, sm_chunks[t][i])]
    /\ sm_pc' = [sm_pc EXCEPT ![t] =
                    IF Fetched(ok, sm_chunks[t][i]) > 0 THEN "save"
                    ELSE IF Len(sm_chunks[t]) = 1 THEN "match"
                    ELSE "fetch"]
    /\ UNCHANGED <<cacheVars, sm_results, sm_raced, last_by, sm_matches,
                   stale_called>>

SmChunkDone(t) ==
    /\ MatcherStep
    /\ \E i \in DOMAIN sm_chunks[t] : \E ok \in BOOLEAN : ChunkDone(t, i, ok)

\* the same step, with the outcome of the request kept
SmChunkDoneSeen(t) ==
    /\ \E i \in DOMAIN sm_chunks[t] : \E ok \in BOOLEAN :
         /\ ChunkDone(t, i, ok)
         /\ last_fetch' = [last_fetch EXCEPT ![t] =
                              IF ok THEN "ok" ELSE "failed"]
    /\ UNCHANGED <<gateVars, clock, threadVars, logVars, pipeVars, llmVars,
                   clientVars, monitorVars, qwenVars, runVars, bufVars,
                   evVars, worker2Vars, sendVars, lockVars, moreVars>>

\* lines 139-141 and 145-153: the next vector of the completed batch goes to
\* results and to the cache.  Its phrase has no entry yet (again), or it is
\* the phrase of the newest entry, which another caller made after this
\* caller read the cache.
SaveBody(t) ==
    /\ sm_pc[t] = "save"
    /\ \E again \in {FALSE} \cup {sm_raced[t] /\ last_by # t} :
         LET c    == phrase_embedding_cache
             name == IF again THEN c[Len(c)] ELSE inserted + 1
         IN  /\ phrase_embedding_cache' = SavePhraseCache(c, name)
             /\ inserted' = IF again THEN inserted ELSE inserted + 1
             /\ evicted' = IF CacheFull(c) THEN Head(c) ELSE evicted
             /\ sm_results' = [sm_results EXCEPT ![t] =
                                  Append(@, PhraseVec(name))]
             /\ last_by' = IF again THEN last_by ELSE t
             /\ sm_raced' = [u \in Callers |->
                               IF u = t THEN sm_raced[t] /\ ~again
                               ELSE sm_raced[u] \/ (~again /\ sm_pc[u] # "idle")]
    /\ sm_saving' = [sm_saving EXCEPT ![t] = @ - 1]
    /\ sm_pc' = [sm_pc EXCEPT ![t] =
                    IF sm_saving[t] > 1 THEN "save"
                    ELSE IF sm_chunks[t] = <<>> THEN "match"
                    ELSE "fetch"]
    /\ UNCHANGED <<sm_enabled, keyword_embeddings, sm_chunks, sm_matches,
                   stale_called>>

SmSave(t) == MatcherStep /\ SaveBody(t)

\* find_similar_keywords, lines 181-193
SmMatch(t) ==
    /\ MatcherStep
    /\ sm_pc[t] = "match"
    /\ sm_matches' = [sm_matches EXCEPT ![t] =
                         MatchPhrases(<<>>, sm_results[t], keyword_embeddings)]
    /\ sm_pc' = [sm_pc EXCEPT ![t] = "return"]
    /\ UNCHANGED <<cacheVars, sm_results, sm_chunks, sm_saving, sm_raced,
                   last_by, stale_called>>

\* lines 171 and 193: the list goes to the caller (keyword_alert.py:148-151)
\* and the locals are gone
SmReturn(t) ==
    /\ MatcherStep
    /\ sm_pc[t] = "return"
    /\ sm_pc' = [sm_pc EXCEPT ![t] = "idle"]
    /\ sm_results' = [sm_results EXCEPT ![t] = <<>>]
    /\ sm_matches' = [sm_matches EXCEPT ![t] = <<>>]
    /\ sm_raced' = [sm_raced EXCEPT ![t] = FALSE]
    /\ UNCHANGED <<cacheVars, sm_chunks, sm_saving, last_by, stale_called>>

RECURSIVE Prefixes(_)
Prefixes(q) ==
    IF q = <<>> THEN { <<>> }
    ELSE { q } \cup Prefixes(SubSeq(q, 1, Len(q) - 1))

\* __init__ and _init_keyword_embeddings, lines 26-77: the matcher is enabled
\* when the embedding request succeeds, and the keywords that got a vector
\* are a prefix of the list (line 68)
InitSem ==
    /\ keywords = <<K1, K2>>
    /\ cooldown = ALERT_COOLDOWN
    /\ semantic_enabled = TRUE
    /\ last_alert_time = 0
    /\ lock = 0
    /\ clock = StartTime
    /\ NoCallers
    /\ accepted = <<>>
    /\ alerts = 0
    /\ NoPipeline
    /\ NoLlmDetector
    /\ NewClient
    /\ MonitorStarted
    /\ NoQwen
    /\ NoExt
    /\ sm_enabled \in BOOLEAN
    /\ keyword_embeddings \in (IF sm_enabled THEN Prefixes(keywords)
                               ELSE { <<>> })
    /\ phrase_embedding_cache = <<>>
    /\ inserted = 0
    /\ evicted = 0
    /\ sm_pc = NoCaller
    /\ sm_results = [t \in Callers |-> <<>>]
    /\ sm_chunks = [t \in Callers |-> <<>>]
    /\ sm_saving = [t \in Callers |-> 0]
    /\ sm_raced = [t \in Callers |-> FALSE]
    /\ last_by = "none"
    /\ sm_matches = [t \in Callers |-> <<>>]
    /\ stale_called = FALSE

\* calls whose text has up to two batches of phrases that are not cached
NextSem ==
    \E t \in Callers :
       \/ SmCall(t, SemInserts, {0, 1, 2, BATCH_SIZE + 1})
       \/ SmChunkDone(t)
       \/ SmSave(t)
       \/ SmMatch(t)
       \/ SmReturn(t)

SpecSem == InitSem /\ [][NextSem]_vars

\* the same calls, with the outcome of each request kept
NextFetch ==
    \E t \in Callers :
       \/ SmCall(t, FetchInserts, {0, 1, BATCH_SIZE + 1})
       \/ SmChunkDoneSeen(t)
       \/ SmSave(t)
       \/ SmMatch(t)
       \/ SmReturn(t)

SpecFetch == InitSem /\ [][NextFetch]_vars

\* a matcher that got a vector for every keyword
InitCache == InitSem /\ keyword_embeddings = keywords

\* enough calls to fill the cache
NextCache ==
    \E t \in Callers :
       \/ SmCall(t, CacheInserts, {0, 1})
       \/ SmChunkDone(t)
       \/ SmSave(t)
       \/ SmMatch(t)
       \/ SmReturn(t)

SpecCache == InitCache /\ [][NextCache]_vars

-----------------------------------------------------------------------------
(* Properties of find_similar_keywords, checked under SpecSem *)

\* the cosine of v and the vector of kw is at least 0.65 = 13/20
SimilarEnough(v, kw) ==
    LET w == KeywordVec(kw)
    IN  /\ Dot(v, w) > 0
        /\ 400 * Dot(v, w) * Dot(v, w) >= 169 * Dot(v, v) * Dot(w, w)

Occurrences(matches, kw) ==
    Cardinality({ i \in DOMAIN matches : matches[i].keyword = kw })

AllKeywords == { keywords[i] : i \in DOMAIN keywords }

\* C13: the list find_similar_keywords returns holds a keyword if and only
\* if the keyword has a vector and some resolved phrase vector is similar
\* enough to it; it holds the keyword once, however many phrases are similar
\* enough, and with the score of the first of them in the order of the
\* resolved phrases.
C13_MatchOnce ==
    \A t \in Callers : sm_pc[t] = "return" =>
      \A kw \in AllKeywords :
        LET res   == sm_results[t]
            close == { j \in DOMAIN res : SimilarEnough(res[j], kw) }
        IN  IF InSeq(keyword_embeddings, kw) /\ close # {}
            THEN /\ Occurrences(sm_matches[t], kw) = 1
                 /\ \E i \in DOMAIN sm_matches[t], j \in close :
                      /\ \A k \in close : j <= k
                      /\ sm_matches[t][i] =
                           [keyword |-> kw,
                            score |-> CosineSimilarity(res[j], KeywordVec(kw))]
            ELSE Occurrences(sm_matches[t], kw) = 0

\* a call has returned a keyword that three of its phrases were similar to
C13_Witness ==
    \E t \in Callers : \E kw \in AllKeywords :
       /\ sm_pc[t] = "return"
       /\ Cardinality({ j \in DOMAIN sm_results[t] :
                          SimilarEnough(sm_results[t][j], kw) }) >= 3
       /\ HasKeyword(sm_matches[t], kw)

-----------------------------------------------------------------------------
(* Properties of the phrase cache, checked under SpecCache *)

\* C14: the phrase cache never holds more than cache_max_size entries.
C14_CacheBounded == Len(phrase_embedding_cache) <= CACHE_MAX_SIZE

\* the cache is full, the session's save has evicted an entry for a new one,
\* and the late callback is about to save a phrase of its own
C14_Witness ==
    /\ Len(phrase_embedding_cache) = CACHE_MAX_SIZE
    /\ inserted > CACHE_MAX_SIZE
    /\ evicted # 0
    /\ last_by = "session"
    /\ sm_pc["stale"] = "save"

Cached == { phrase_embedding_cache[i] : i \in DOMAIN phrase_embedding_cache }

\* C15: a save into a full cache removes the entry made earliest among those
\* present, whatever was read in between, and nothing else; the keyword
\* vectors are never removed.
C15_EvictsEarliest ==
    [][ /\ keyword_embeddings' = keyword_embeddings
        /\ (Len(phrase_embedding_cache) >= CACHE_MAX_SIZE
            /\ \E t \in Callers : sm_saving'[t] < sm_saving[t])
           => /\ \A p \in Cached : evicted' <= p
              /\ evicted' \in Cached
              /\ \A p \in Cached :
                   p # evicted' => InSeq(phrase_embedding_cache', p) ]_vars

\* a call read the oldest entry of a full cache and then saved a new phrase,
\* which evicted the entry it had read
C15_Witness ==
    \E t \in Callers :
       /\ sm_pc[t] = "match"
       /\ Len(sm_results[t]) = 2
       /\ sm_results[t][1] = PhraseVec(evicted)
       /\ evicted # 0
       /\ inserted = evicted + CACHE_MAX_SIZE
       /\ Len(phrase_embedding_cache) = CACHE_MAX_SIZE

-----------------------------------------------------------------------------
(* Qwen2AudioDetector, src/alert/audio_detector.py *)

QwenStep == UNCHANGED <<gateVars, threadVars, logVars, mode, text_buffer,
                        events, llmVars, clientVars, matcherVars, monitorVars,
                        extVars>>

\* lines 89-96, start(); monitor_web.py:68-81 builds the detector in the
\* qwen2-audio mode and in the debug mode only
QaStart ==
    /\ mode \in {"qwen2-audio", "debug"}
    /\ qa_pc = "unstarted"
    /\ qa_running' = TRUE
    /\ qa_pc' = "test"
    /\ UNCHANGED <<clock, web_alerts, audio_buffer, buffer_lock, qa_stop_pc,
                   fa_pc, qa_fed, qa_last_alert_time>>
    /\ QwenStep

\* lines 81-84, feed_audio of an enabled detector, up to the `with` of line 86
FeedCall(limit) ==
    /\ mode \in {"qwen2-audio", "debug"}
    /\ fa_pc = "idle"
    /\ qa_fed < limit
    /\ fa_pc' = "lock"
    /\ qa_fed' = qa_fed + 1
    /\ UNCHANGED <<clock, web_alerts, audio_buffer, buffer_lock, qa_running,
                   qa_pc, qa_stop_pc, qa_last_alert_time>>
    /\ QwenStep

\* lines 86-87: feed_audio takes buffer_lock, appends the frame and returns
AppendFrame ==
    /\ fa_pc = "lock"
    /\ buffer_lock = "free"
    /\ audio_buffer' = audio_buffer + 1
    /\ fa_pc' = "idle"
    /\ UNCHANGED <<clock, web_alerts, buffer_lock, qa_running, qa_pc,
                   qa_stop_pc, qa_fed, qa_last_alert_time>>

FeedAppend == AppendFrame /\ QwenStep

\* line 108, `while self._running`
QaTest ==
    /\ qa_pc = "test"
    /\ qa_pc' = IF qa_running THEN "acquire" ELSE "exited"
    /\ UNCHANGED <<clock, web_alerts, audio_buffer, buffer_lock, qa_running,
                   qa_stop_pc, fa_pc, qa_fed, qa_last_alert_time>>
    /\ QwenStep

\* lines 110-117: the worker takes buffer_lock; with too little audio it goes
\* to sleep inside the `with` block, still holding the lock; otherwise it
\* cuts one chunk off the buffer and releases the lock
TakeChunk ==
    /\ qa_pc = "acquire"
    /\ buffer_lock = "free"
    /\ IF audio_buffer < ChunkFrames
       THEN /\ buffer_lock' = "worker"
            /\ qa_pc' = "sleep"
            /\ UNCHANGED audio_buffer
       ELSE /\ audio_buffer' = audio_buffer - ChunkFrames
            /\ qa_pc' = "detect"
            /\ UNCHANGED buffer_lock
    /\ UNCHANGED <<clock, web_alerts, qa_running, qa_stop_pc, fa_pc, qa_fed,
                   qa_last_alert_time>>

QaAcquire == TakeChunk /\ QwenStep

\* lines 112-113: time.sleep(0.5) ends, `continue` leaves the `with` block
QaWake ==
    /\ qa_pc = "sleep"
    /\ buffer_lock' = "free"
    /\ qa_pc' = "test"
    /\ UNCHANGED <<clock, web_alerts, audio_buffer, qa_running, qa_stop_pc,
                   fa_pc, qa_fed, qa_last_alert_time>>
    /\ QwenStep

\* lines 121 and 125-149, _detect_audio: the remote request and its answer
QaDetect ==
    /\ qa_pc = "detect"
    /\ \E detected \in BOOLEAN :
         qa_pc' = IF detected THEN "alert" ELSE "test"
    /\ UNCHANGED <<clock, web_alerts, audio_buffer, buffer_lock, qa_running,
                   qa_stop_pc, fa_pc, qa_fed, qa_last_alert_time>>
    /\ QwenStep

\* lines 230-255, _trigger_alert, and monitor_web.py:190-197, _on_qwen2_alert
AlertBody ==
    /\ qa_pc = "alert"
    /\ IF InCooldown(cooldown, clock, qa_last_alert_time)
       THEN UNCHANGED <<qa_last_alert_time, web_alerts>>
       ELSE /\ qa_last_alert_time' = clock
            /\ \E kws \in SemanticMatches(keywords) \ { <<>> } :
                 web_alerts' = ScheduleAsync(web_alerts,
                                 [source |-> "none", keywords |-> kws])
    /\ qa_pc' = "test"
    /\ UNCHANGED <<clock, audio_buffer, buffer_lock, qa_running, qa_stop_pc,
                   fa_pc, qa_fed>>

QaAlert == AlertBody /\ QwenStep

\* lines 99-101, stop(), up to the join
QaStop ==
    /\ qa_pc # "unstarted"
    /\ qa_stop_pc = "idle"
    /\ qa_running' = FALSE
    /\ qa_stop_pc' = "join"
    /\ UNCHANGED <<clock, web_alerts, audio_buffer, buffer_lock, qa_pc, fa_pc,
                   qa_fed, qa_last_alert_time>>
    /\ QwenStep

\* lines 102-104, join(timeout=2): stop() returns when the thread has exited
\* or two seconds have passed
QaStopJoined ==
    /\ qa_stop_pc = "join"
    /\ qa_stop_pc' = "returned"
    /\ UNCHANGED <<clock, web_alerts, audio_buffer, buffer_lock, qa_running,
                   qa_pc, fa_pc, qa_fed, qa_last_alert_time>>
    /\ QwenStep

\* monitor_web.py:67-82 and 296-300: the monitor in "qwen2-audio" mode
InitQwen ==
    /\ keywords = <<K1>>
    /\ cooldown \in {0, ALERT_COOLDOWN}
    /\ mode = "qwen2-audio"
    /\ semantic_enabled = FALSE
    /\ last_alert_time = 0
    /\ lock = 0
    /\ clock = StartTime
    /\ NoCallers
    /\ accepted = <<>>
    /\ alerts = 0
    /\ text_buffer = <<>>
    /\ events = <<>>
    /\ web_alerts = <<>>
    /\ NoLlmDetector
    /\ NewClient
    /\ MonitorStarted
    /\ NoQwen
    /\ NoExt
    /\ NewMatcher

NextQwen ==
    \/ Tick(StartTime + QwenElapsed)
    \/ QaStart
    \/ FeedCall(QwenFrames)
    \/ FeedAppend
    \/ QaTest
    \/ QaAcquire
    \/ QaWake
    \/ QaDetect
    \/ QaAlert
    \/ QaStop
    \/ QaStopJoined

SpecQwen == InitQwen /\ [][NextQwen]_vars

\* C17: a feed_audio call that has begun is never kept waiting by another
\* thread: whenever it is at the lock of the audio buffer, the lock is free.
C17_Claimed == fa_pc = "lock" => buffer_lock = "free"

-----------------------------------------------------------------------------
(* Properties of the reconnecting and the stopped client, checked under
   SpecAsrRetry *)

\* a step in which send_audio_frame raises a transport error
TransportFailure ==
    /\ w_pc = "send"
    /\ w_pc' # "send"
    /\ recognition # 0
    /\ connection_alive
    /\ ~connection_alive'

Reconnecting == w_pc \in {"rc_sleep", "rc_create"}

\* C18, as claimed: every transport failure of a send makes the client
\* discard its session and begin to reconnect.
C18_Claimed ==
    [][ TransportFailure
        => recognition' = 0 /\ session_state' = "closed"
           /\ w_pc' = "rc_sleep" ]_vars

\* C18: a transport failure of a send, while the client runs and has
\* attempts left, makes it stop and discard its session before it waits; after
\* the wait it empties the queue, holding no frame itself, and only then
\* opens a new session; while it reconnects no frame is on its way to a
\* backend, and feed_audio still appends the frames it is given.
C18_ReconnectOrder ==
    [][ /\ (TransportFailure /\ is_running /\ MayReconnect(reconnect_count))
           => /\ recognition' = 0
              /\ session_state' = "closed"
              /\ sessions' = sessions
              /\ w_pc' = "rc_sleep"
        /\ (w_pc = "rc_sleep" /\ w_pc' # "rc_sleep")
           => /\ w_pc' = "rc_create"
              /\ audio_queue' = <<>>
              /\ w_frame' = 0
              /\ recognition' = 0
              /\ sessions' = sessions
        /\ (sessions' # sessions /\ sessions > 0)
           => /\ w_pc = "rc_create"
              /\ recognition = 0
              /\ recognition' = sessions'
        /\ Reconnecting => w_frame = 0 /\ recognition = 0
        /\ (Reconnecting /\ fed' # fed)
           => IF Len(audio_queue) < QUEUE_LIMIT
              THEN audio_queue' = Append(audio_queue, fed')
              ELSE audio_queue' = audio_queue ]_vars

\* the client has replaced a session after one counted attempt and is about
\* to send the new session a frame, with more frames queued behind it
C18_Witness ==
    /\ sessions = 2
    /\ recognition = 2
    /\ reconnect_count = 1
    /\ connection_alive
    /\ w_pc = "send"
    /\ w_frame > 1
    /\ audio_queue # <<>>

\* C19: once stop() has returned, is_running is False.
C19_Claimed == stop_returned => ~is_running

-----------------------------------------------------------------------------
(* Properties of the monitor while it stops, checked under SpecStop *)

\* a step in which an alert is accepted: by the gate of KeywordAlert, or by
\* the cooldown test of the LLM detector
AcceptedStep ==
    \/ accepted' # accepted
    \/ /\ llm_pc = "alert"
       /\ llm_pc' # "alert"
       /\ LlmCooldownPassed(cooldown, clock, llm_last_alert_time)

\* C16: every accepted alert is handed to the web broadcast exactly once
\* (monitor.py has no web server) and triggers the audible alert exactly
\* once, and neither happens without an accepted alert.
C16_Claimed ==
    [][ IF AcceptedStep
        THEN /\ mode # "console" => Len(web_alerts') = Len(web_alerts) + 1
             /\ alerts' + beeps' = alerts + beeps + 1
        ELSE /\ web_alerts' = web_alerts
             /\ alerts' + beeps' = alerts + beeps ]_vars

\* C20: once stop() of the LLM detector has returned, the detector sends no
\* classification request and invokes no alert callback.
C20_Claimed ==
    [][ llm_stop_pc = "returned"
        => /\ ~(llm_pc = "analyze" /\ llm_pc' # "analyze")
           /\ beeps' = beeps
           /\ web_alerts' = web_alerts ]_vars

-----------------------------------------------------------------------------
(* ClassroomMonitor from start() to its return: src/monitor_web.py,        *)
(* src/audio/server.py, src/web/server.py                                  *)

MaxRuns    == 2      \* pipeline runs start() may begin
RunFrames  == 3      \* audio frames forwarded to an engine

Components == {"asr_engine", "audio_detector", "llm_detector"}
Stoppers   == {"restart", "finally"}
RunModes   == {"asr", "asr+llm", "qwen2-audio", "debug"}

\* monitor_web.py:52-126, __init__: the components each mode builds
Created(md) ==
    CASE md = "debug"       -> {"asr_engine", "audio_detector"}
      [] md = "qwen2-audio" -> {"audio_detector"}
      [] md = "asr+llm"     -> {"asr_engine", "llm_detector"}
      [] OTHER              -> {"asr_engine"}

\* monitor_web.py:279-303, start_async: the components each mode starts, of
\* those that were built
Started(md, built) ==
    CASE md = "debug"       -> built \cap {"asr_engine", "audio_detector"}
      [] md = "asr+llm" /\ {"asr_engine", "llm_detector"} \subseteq built
                            -> {"asr_engine", "llm_detector"}
      [] md = "qwen2-audio" /\ "audio_detector" \in built
                            -> {"audio_detector"}
      [] OTHER              -> built \cap {"asr_engine"}

\* monitor_web.py:247, the test of _on_audio_data
ForwardsAlways(running) == TRUE
Forwards(running) == running

\* monitor_web.py:249-262: the engines a frame is passed to
Fed(md, built) ==
    CASE md = "debug"       -> built \cap {"asr_engine", "audio_detector"}
      [] md = "qwen2-audio" /\ "audio_detector" \in built
                            -> {"audio_detector"}
      [] OTHER              -> built \cap {"asr_engine"}

Built == {c \in Components : comp[c] # "none"}

\* monitor_web.py:340-343: self.ws_server.stop_async() is looked up on an
\* AudioWebSocketServer (audio/server.py:22-105), which defines stop() and
\* no stop_async; the AttributeError is swallowed by the bare except and
\* server.close() is never called
WsAfterStopAsync(open) == open

\* stop() of a component (dashscope_asr.py:185-191, funasr_engine.py:125-130,
\* audio_detector.py:99-104, llm_text_detector.py:95-99): the flag is
\* cleared and the worker joined with a timeout, so stop() returns with the
\* worker exited or left running
AfterStop(state) ==
    CASE state = "none"   -> {"none"}
      [] state = "exited" -> {"exited"}
      [] OTHER            -> {"exited", "abandoned"}

RunStep == UNCHANGED <<gateVars, clock, threadVars, logVars, text_buffer,
                       events, web_alerts, llmVars, clientVars, matcherVars,
                       monitorVars, qwenVars, bufVars, evVars, worker2Vars,
                       sendVars, lockVars, fetchVars,
                       moreVars>>

\* monitor_web.py:364-369 and 270-322: start() clears the restart flag and
\* runs start_async, which starts the components of the mode, the web
\* panel and the audio server, and then waits for the audio server to close
RunStart ==
    /\ sa_pc = "init"
    /\ runs < MaxRuns
    /\ restart_requested' = FALSE
    /\ comp' = [c \in Components |->
                  IF c \in Started(mode, Built) THEN "started" ELSE comp[c]]
    /\ web_up' = TRUE
    /\ mon_running' = TRUE
    /\ ws_open' = TRUE
    /\ sa_pc' = "serve"
    /\ runs' = runs + 1
    /\ UNCHANGED <<mode, st_pc, interrupted, forwarded>>
    /\ RunStep

\* audio/server.py:44-47 and monitor_web.py:245-262: a frame from the
\* browser extension reaches _on_audio_data
OnAudioData ==
    /\ ws_open
    /\ forwarded < RunFrames
    /\ Forwards(mon_running)
    /\ Fed(mode, Built) # {}
    /\ forwarded' = forwarded + 1
    /\ UNCHANGED <<mode, mon_running, restart_requested, ws_open, web_up,
                   sa_pc, st_pc, interrupted, runs, comp>>
    /\ RunStep

\* monitor_web.py:333-343, stop_async up to its first suspension: the flag
\* is cleared, the audio server is asked to stop, and the stop of the web
\* panel is awaited
StopBegins(who) ==
    /\ mon_running' = FALSE
    /\ ws_open' = WsAfterStopAsync(ws_open)
    /\ st_pc' = [st_pc EXCEPT ![who] = "web"]

\* web/server.py:94-102, 187-191 and monitor_web.py:264-268: the panel's
\* restart request runs _handle_restart on the event loop
RestartRequest ==
    /\ web_up
    /\ sa_pc = "serve"
    /\ st_pc["restart"] = "idle"
    /\ restart_requested' = TRUE
    /\ StopBegins("restart")
    /\ UNCHANGED <<mode, web_up, sa_pc, interrupted, runs, comp, forwarded>>
    /\ RunStep

\* monitor_web.py:322-331: start_async leaves its wait, because the audio
\* server has closed (audio/server.py:72) or because Ctrl+C has cancelled
\* the task, and enters its finally clause
ServeEnds ==
    /\ sa_pc = "serve"
    /\ st_pc["finally"] = "idle"
    /\ \E cause \in {"closed", "cancelled"} :
         /\ cause = "closed" => ~ws_open
         /\ interrupted' = (interrupted \/ cause = "cancelled")
    /\ sa_pc' = "finally"
    /\ StopBegins("finally")
    /\ UNCHANGED <<mode, restart_requested, web_up, runs, comp, forwarded>>
    /\ RunStep

\* the wait of audio/server.py:72 ends by itself
WaitClosed == ~ws_open /\ ServeEnds

\* monitor_web.py:345-349 and web/server.py:357-366
StopWeb(who) ==
    /\ st_pc[who] = "web"
    /\ web_up' = FALSE
    /\ st_pc' = [st_pc EXCEPT ![who] = "engines"]
    /\ UNCHANGED <<mode, mon_running, restart_requested, ws_open, sa_pc,
                   interrupted, runs, comp, forwarded>>
    /\ RunStep

\* monitor_web.py:351-360: stop() of every component that was built
StopEngines(who) ==
    /\ st_pc[who] = "engines"
    /\ comp' \in [Components -> {"none", "started", "exited", "abandoned"}]
    /\ \A c \in Components : comp'[c] \in AfterStop(comp[c])
    /\ st_pc' = [st_pc EXCEPT ![who] = "done"]
    /\ UNCHANGED <<mode, mon_running, restart_requested, ws_open, web_up,
                   sa_pc, interrupted, runs, forwarded>>
    /\ RunStep

\* monitor_web.py:369-381: asyncio.run returns; start() returns after
\* Ctrl+C or without a restart request, and otherwise calls __init__ (lines
\* 26-149), which builds new servers and components, and loops
RunReturns ==
    /\ sa_pc = "finally"
    /\ st_pc["finally"] = "done"
    /\ IF ~interrupted /\ restart_requested
       THEN /\ sa_pc' = "init"
            /\ comp' = [c \in Components |->
                          IF c \in Created(mode) THEN "created" ELSE "none"]
            /\ st_pc' = [who \in Stoppers |-> "idle"]
            /\ restart_requested' = FALSE
            /\ ws_open' = FALSE
       ELSE /\ sa_pc' = "exit"
            /\ UNCHANGED <<comp, st_pc, restart_requested, ws_open>>
    /\ UNCHANGED <<mode, mon_running, web_up, interrupted, runs, forwarded>>
    /\ RunStep

\* monitor_web.py:26-149: a monitor built in one of its modes
InitRun ==
    /\ keywords = <<K1>>
    /\ cooldown = ALERT_COOLDOWN
    /\ mode \in RunModes
    /\ semantic_enabled = FALSE
    /\ last_alert_time = 0
    /\ lock = 0
    /\ clock = StartTime
    /\ NoCallers
    /\ accepted = <<>>
    /\ alerts = 0
    /\ text_buffer = <<>>
    /\ events = <<>>
    /\ web_alerts = <<>>
    /\ NoLlmDetector
    /\ NewClient
    /\ MonitorStarted
    /\ NoQwen
    /\ NewMatcher
    /\ mon_running = FALSE
    /\ restart_requested = FALSE
    /\ ws_open = FALSE
    /\ web_up = FALSE
    /\ sa_pc = "init"
    /\ st_pc = [who \in Stoppers |-> "idle"]
    /\ interrupted = FALSE
    /\ runs = 0
    /\ comp = [c \in Components |->
                 IF c \in Created(mode) THEN "created" ELSE "none"]
    /\ forwarded = 0
    /\ NoBuf
    /\ NoEvents
    /\ NoWorker2
    /\ send_result = "none"
    /\ NoFeeder
    /\ last_fetch = [t \in Callers |-> "none"]
    /\ NoMore

NextRun ==
    \/ RunStart
    \/ OnAudioData
    \/ RestartRequest
    \/ ServeEnds
    \/ \E who \in Stoppers : \/ StopWeb(who)
                             \/ StopEngines(who)
    \/ RunReturns

SpecRun == InitRun /\ [][NextRun]_vars

\* the event loop runs every task that is ready and the interpreter returns
\* from asyncio.run; frames, restart requests and Ctrl+C come from outside
SpecRunFair ==
    /\ SpecRun
    /\ WF_vars(RunStart)
    /\ WF_vars(WaitClosed)
    /\ \A who \in Stoppers : /\ WF_vars(StopWeb(who))
                             /\ WF_vars(StopEngines(who))
    /\ WF_vars(RunReturns)

\* C21 as claimed: after a restart request the running start_async
\* eventually returns and start() begins a new pipeline run, unless Ctrl+C
\* ends the process first.
C21_Claimed == restart_requested ~> (runs >= 2 \/ interrupted)

\* the state the restart leaves behind: stopped, flagged for restart, and
\* start_async still waiting for an audio server that nobody closes
C21_Stuck ==
    /\ restart_requested
    /\ st_pc["restart"] = "done"
    /\ sa_pc = "serve"
    /\ ws_open
    /\ ~mon_running
    /\ ~web_up

\* C22: once is_running is cleared no frame is passed to an engine, and the
\* step that calls stop() finds is_running cleared and calls it on every
\* started component, each call returning with the worker exited or
\* abandoned.
C22_StopOrder ==
    [][ /\ ~mon_running => forwarded' = forwarded
        /\ (\E who \in Stoppers : /\ st_pc[who] = "engines"
                                   /\ st_pc'[who] = "done")
           => /\ ~mon_running
              /\ \A c \in Components :
                   comp[c] = "started" => comp'[c] \in {"exited", "abandoned"}
      ]_vars

\* stop_async has returned with a worker abandoned, after frames were
\* forwarded, while the audio server still delivers frames
C22_Witness ==
    /\ \E who \in Stoppers : st_pc[who] = "done"
    /\ \E c \in Components : comp[c] = "abandoned"
    /\ forwarded > 0
    /\ forwarded < RunFrames
    /\ ws_open
    /\ ~mon_running

-----------------------------------------------------------------------------
(* _on_text_result called by two threads: src/monitor_web.py:151-177       *)

BufCalls == 3        \* transcript callbacks in one behaviour of SpecBuf

\* short fragments, without and with a keyword
ShortFragments == { Please, KNow }

BufStep == UNCHANGED <<clock, mode, llmVars, clientVars, matcherVars,
                       monitorVars, qwenVars, runVars, evVars, worker2Vars,
                       sendVars, lockVars, fetchVars,
                       moreVars>>

GateRests == UNCHANGED <<gateVars, threadVars, logVars>>

\* line 153: the callback is entered with a non-empty text
CbEnter(t, limit, frags) ==
    /\ mode = "asr"
    /\ cb_pc[t] = "idle"
    /\ cb_calls < limit
    /\ \E frag \in frags : cb_frag' = [cb_frag EXCEPT ![t] = frag]
    /\ cb_pc' = [cb_pc EXCEPT ![t] = "load"]
    /\ cb_calls' = cb_calls + 1
    /\ UNCHANGED <<text_buffer, events, web_alerts, cb_read, cb_ok>>
    /\ GateRests
    /\ BufStep

\* line 159, `self.text_buffer += text`: the attribute is loaded ...
CbLoad(t) ==
    /\ cb_pc[t] = "load"
    /\ cb_read' = [cb_read EXCEPT ![t] = text_buffer]
    /\ cb_pc' = [cb_pc EXCEPT ![t] = "store"]
    /\ UNCHANGED <<text_buffer, events, web_alerts, cb_frag, cb_ok, cb_calls>>
    /\ GateRests
    /\ BufStep

\* ... and the concatenation is stored; no lock is held in between
CbStore(t) ==
    /\ cb_pc[t] = "store"
    /\ text_buffer' = cb_read[t] \o cb_frag[t]
    /\ cb_pc' = [cb_pc EXCEPT ![t] = "check"]
    /\ UNCHANGED <<events, web_alerts, cb_frag, cb_read, cb_ok, cb_calls>>
    /\ GateRests
    /\ BufStep

\* line 166, `detected = self.keyword_alert.check_and_alert(self.text_buffer)`
CbCheck(t) ==
    /\ cb_pc[t] = "check"
    /\ \E o \in MatchOutcomes(keywords, semantic_enabled, text_buffer) :
       \E ok \in BOOLEAN :
         /\ CheckAndAlert(text_buffer, o, ok)
         /\ events' = Append(events, Event(cb_frag[t], ok, o))
         /\ cb_ok' = [cb_ok EXCEPT ![t] = ok]
    /\ cb_pc' = [cb_pc EXCEPT ![t] = "after"]
    /\ UNCHANGED <<text_buffer, web_alerts, cb_frag, cb_read, cb_calls>>
    /\ BufStep

\* lines 169-177: the alert is sent and the buffer cleared, or the buffer is
\* trimmed
CbAfter(t) ==
    /\ cb_pc[t] = "after"
    /\ web_alerts' =
         IF cb_ok[t]
         THEN ScheduleAsync(web_alerts,
                     [source |-> "none",
                      keywords |-> ExactMatches(keywords, text_buffer)])
         ELSE web_alerts
    /\ text_buffer' = BufferAfterCheck(cb_ok[t], text_buffer)
    /\ cb_pc' = [cb_pc EXCEPT ![t] = "idle"]
    /\ UNCHANGED <<events, cb_frag, cb_read, cb_ok, cb_calls>>
    /\ GateRests
    /\ BufStep

\* the pipeline of monitor_web.py in "asr" mode, its callback registered with
\* the recognition session and with the session a reconnect replaced
InitBuf ==
    /\ keywords = <<K1>>
    /\ cooldown \in {0, ALERT_COOLDOWN}
    /\ mode = "asr"
    /\ semantic_enabled = FALSE
    /\ last_alert_time = 0
    /\ lock = 0
    /\ clock = StartTime
    /\ NoCallers
    /\ accepted = <<>>
    /\ alerts = 0
    /\ text_buffer = <<>>
    /\ events = <<>>
    /\ web_alerts = <<>>
    /\ NoLlmDetector
    /\ NewClient
    /\ MonitorStarted
    /\ NoQwen
    /\ NewMatcher
    /\ NoExt

NextBuf ==
    \E t \in Callers :
        \/ CbEnter(t, BufCalls, ShortFragments)
        \/ CbLoad(t)
        \/ CbStore(t)
        \/ CbCheck(t)
        \/ CbAfter(t)

SpecBuf == InitBuf /\ [][NextBuf]_vars

\* C23 as claimed: the buffer mutations of concurrent transcript callbacks
\* are serialized, so no append is lost: the fragment a callback has appended
\* is still in the buffer when that callback checks the buffer.
C23_Claimed ==
    \A t \in Callers :
        cb_pc[t] = "check" => OccursIn(text_buffer, cb_frag[t])

-----------------------------------------------------------------------------
(* Recognition events and the transcript callback:                         *)
(* src/asr/dashscope_asr.py:69-80, src/asr/funasr_engine.py:96-117         *)

EventCalls == 4      \* recognition events in one behaviour of SpecEvent

\* dashscope_asr.py:75-77 (`if text:`), funasr_engine.py:112 (`if text and
\* self.result_callback`): the events that are handed to the callback
DeliverableAlways(txt) == TRUE
Deliverable(txt) == txt # <<>>

\* on_event, called by the session's thread for each result of the backend,
\* in the order the backend produces them; the registered callback runs
\* inside it
OnEvent(limit, frags) ==
    /\ mode = "asr"
    /\ ev_count < limit
    /\ \E txt \in frags \cup { <<>> } :
         /\ ev_text' = txt
         /\ IF Deliverable(txt)
            THEN TextResult(txt)
            ELSE UNCHANGED <<gateVars, threadVars, logVars, text_buffer,
                             events, web_alerts>>
    /\ ev_count' = ev_count + 1
    /\ UNCHANGED <<clock, mode, llmVars, clientVars, matcherVars, monitorVars,
                   qwenVars, runVars, bufVars, worker2Vars, sendVars,
                   lockVars, fetchVars,
                   moreVars>>

\* the pipeline of monitor_web.py in "asr" mode
InitEvent == InitBuf

NextEvent ==
    \/ Tick(StartTime + PipeElapsed)
    \/ OnEvent(EventCalls, ShortFragments)

SpecEvent == InitEvent /\ [][NextEvent]_vars

\* C24: an event with non-empty text makes exactly one callback, with that
\* text, after the callbacks of all earlier events; an event with empty text
\* makes none.
C24_DeliveredOnce ==
    [][ ev_count' # ev_count
        => IF ev_text' # <<>>
           THEN /\ Len(events') = Len(events) + 1
                /\ SubSeq(events', 1, Len(events)) = events
                /\ events'[Len(events')].text = ev_text'
           ELSE events' = events ]_vars

\* an event without text has been skipped and two events with text delivered
C24_Witness ==
    /\ Len(events) >= 2
    /\ ev_count > Len(events)
    /\ events[Len(events)].text = ev_text

-----------------------------------------------------------------------------
(* DashScopeASR.start() called again after the reconnect budget is used up *)
(* (src/asr/dashscope_asr.py:97-176)                                       *)

AgainFrames == 3     \* frames fed after the budget was used up

\* the client after max_reconnect reconnects in a row have failed: the
\* first session was lost with frame 1, every later frame started one
\* failed reconnect, and the worker of the first start() is still in its
\* loop (is_running is True)
AfterGiveUp ==
    /\ is_running = TRUE
    /\ connection_alive = FALSE
    /\ reconnect_count = MAX_RECONNECT
    /\ recognition = 0
    /\ audio_queue = <<>>
    /\ sessions = 1
    /\ session_state = "closed"
    /\ fed = MAX_RECONNECT
    /\ stopped = FALSE
    /\ w_pc = "get"
    /\ w_frame = 0
    /\ w_iters = MAX_RECONNECT
    /\ dropped = 0
    /\ oldest_at_drop = 0
    /\ oldest_fate = "none"

\* a step of the second worker touches nothing else
Client2Step == UNCHANGED <<gateVars, clock, threadVars, logVars, pipeVars,
                           llmVars, matcherVars, monitorVars, qwenVars,
                           runVars, bufVars, evVars, sendVars, lockVars,
                           fetchVars, moreVars,
                           workerVars>>

\* start(), lines 172-176: a new thread is created whatever became of the
\* thread of the first start()
StartAgain ==
    /\ Client2Step
    /\ w_pc # "unstarted"
    /\ w2_pc = "unstarted"
    /\ w2_pc' = "create"
    /\ UNCHANGED <<asrVars, w2_frame, frameVars>>

\* _recognition_worker, lines 99-103 and 137-140, run by the second thread
Worker2Create ==
    /\ Client2Step
    /\ w2_pc = "create"
    /\ \E ok \in BOOLEAN :
         IF ok
         THEN /\ sessions' = sessions + 1
              /\ recognition' = sessions + 1
              /\ session_state' = "started"
              /\ connection_alive' = TRUE
              /\ is_running' = TRUE
              /\ w2_pc' = "get"
         ELSE /\ w2_pc' = "done"
              /\ UNCHANGED <<sessions, recognition, session_state,
                             connection_alive, is_running>>
    /\ UNCHANGED <<reconnect_count, audio_queue, fed, stopped, w2_frame,
                   frameVars>>

\* lines 106-108 and 130-135, run by the second thread
Worker2Get ==
    /\ Client2Step
    /\ w2_pc = "get"
    /\ IF ~is_running
       THEN /\ w2_pc' = "done"
            /\ session_state' = IF recognition # 0 THEN "closed"
                                ELSE session_state
            /\ UNCHANGED <<audio_queue, w2_frame>>
       ELSE /\ audio_queue # <<>>
            /\ w2_frame' = Get(audio_queue)[1]
            /\ audio_queue' = Get(audio_queue)[2]
            /\ w2_pc' = "send"
            /\ UNCHANGED session_state
    /\ UNCHANGED <<is_running, connection_alive, reconnect_count, recognition,
                   sessions, fed, stopped, frameVars>>

\* _reconnect, lines 144-153, run by the second thread
BeginReconnect2 ==
    /\ reconnect_count' = reconnect_count + 1
    /\ recognition' = 0
    /\ session_state' = IF recognition # 0 THEN "closed" ELSE session_state
    /\ w2_pc' = "rc_sleep"

\* lines 110-125, run by the second thread
Worker2Send ==
    /\ Client2Step
    /\ w2_pc = "send"
    /\ w2_frame' = 0
    /\ IF recognition # 0 /\ connection_alive
       THEN \E result \in {"ok", "transport", "other"} :
              /\ result = "ok" => session_state \in {"started", "opened"}
              /\ Leaves(w2_frame, IF result = "ok" THEN "sent" ELSE "lost")
              /\ IF IsTransport(result)
                 THEN /\ connection_alive' = FALSE
                      /\ IF is_running /\ MayReconnect(reconnect_count)
                         THEN BeginReconnect2
                         ELSE /\ w2_pc' = "get"
                              /\ UNCHANGED <<reconnect_count, recognition,
                                             session_state>>
                 ELSE /\ w2_pc' = "get"
                      /\ UNCHANGED <<connection_alive, reconnect_count,
                                     recognition, session_state>>
       ELSE /\ Leaves(w2_frame, "lost")
            /\ IF ~connection_alive /\ is_running
                  /\ MayReconnect(reconnect_count)
               THEN BeginReconnect2
               ELSE /\ w2_pc' = "get"
                    /\ UNCHANGED <<reconnect_count, recognition,
                                   session_state>>
            /\ UNCHANGED connection_alive
    /\ UNCHANGED <<is_running, audio_queue, sessions, fed, stopped, dropped,
                   oldest_at_drop>>

\* _reconnect, lines 156-163, run by the second thread
Rc2Flush ==
    /\ Client2Step
    /\ w2_pc = "rc_sleep"
    /\ audio_queue' = Flush(audio_queue)
    /\ oldest_fate' = IF Queued(oldest_at_drop) /\ oldest_fate = "queued"
                      THEN "lost" ELSE oldest_fate
    /\ w2_pc' = "rc_create"
    /\ UNCHANGED <<is_running, connection_alive, reconnect_count, recognition,
                   sessions, session_state, fed, stopped, w2_frame, dropped,
                   oldest_at_drop>>

\* _reconnect, lines 165-170, run by the second thread
Rc2Create ==
    /\ Client2Step
    /\ w2_pc = "rc_create"
    /\ \E ok \in BOOLEAN :
         IF ok
         THEN /\ sessions' = sessions + 1
              /\ recognition' = sessions + 1
              /\ session_state' = "started"
              /\ connection_alive' = TRUE
         ELSE /\ connection_alive' = FALSE
              /\ UNCHANGED <<sessions, recognition, session_state>>
    /\ w2_pc' = "get"
    /\ UNCHANGED <<is_running, reconnect_count, audio_queue, fed, stopped,
                   w2_frame, frameVars>>

\* the client of InitAsr once its reconnect budget is used up
InitAgain ==
    /\ keywords = <<K1>>
    /\ cooldown = ALERT_COOLDOWN
    /\ semantic_enabled = FALSE
    /\ last_alert_time = 0
    /\ lock = 0
    /\ clock = StartTime
    /\ NoCallers
    /\ accepted = <<>>
    /\ alerts = 0
    /\ NoPipeline
    /\ NoLlmDetector
    /\ AfterGiveUp
    /\ MonitorStarted
    /\ NoQwen
    /\ NoExt
    /\ NewMatcher

NextAgain ==
    \/ WorkerGet(MAX_RECONNECT + AgainFrames)
    \/ WorkerSend
    \/ RcFlush
    \/ RcCreate
    \/ OnOpen
    \/ OnClose
    \/ FeedAudio(MAX_RECONNECT + AgainFrames)
    \/ StartAgain
    \/ Worker2Create
    \/ Worker2Get
    \/ Worker2Send
    \/ Rc2Flush
    \/ Rc2Create

SpecAgain == InitAgain /\ [][NextAgain]_vars

\* C25 as claimed: after start() is called again the frames are sent by one
\* worker in FIFO order: the two worker threads never hold a frame each,
\* taken from the queue and about to be sent on the open session in
\* whichever order the threads run.
C25_Claimed ==
    ~(/\ w_frame # 0
      /\ w2_frame # 0
      /\ recognition # 0
      /\ connection_alive
      /\ session_state \in {"started", "opened"})

-----------------------------------------------------------------------------
(* The outcome of send_audio_frame: src/asr/dashscope_asr.py:110-121       *)

SendFrames == 4      \* feed_audio calls in one behaviour of SpecSend

\* lines 110-125, with the outcome of send_audio_frame kept
WorkerSendSeen ==
    /\ \E result \in {"ok", "transport", "other"} :
         /\ SendFrame(result)
         /\ send_result' = IF recognition # 0 /\ connection_alive
                           THEN result ELSE "none"
    /\ UNCHANGED <<gateVars, clock, threadVars, logVars, pipeVars, llmVars,
                   matcherVars, monitorVars, qwenVars, runVars, bufVars,
                   evVars, worker2Vars, lockVars, fetchVars,
                   moreVars>>

\* a client that is fed a few frames
NextSend ==
    \/ Start
    \/ WorkerCreate
    \/ WorkerGet(SendFrames)
    \/ WorkerSendSeen
    \/ RcFlush
    \/ RcCreate
    \/ OnOpen
    \/ OnClose
    \/ FeedAudio(SendFrames)

SpecSend == InitAsr /\ [][NextSend]_vars

\* C26: a send that fails with an error other than a lost connection starts
\* no reconnect and leaves the session, connection_alive, reconnect_count
\* and the queued frames as they were; the worker goes on with the next
\* frame.
C26_OtherOnlyLogged ==
    [][ (w_pc = "send" /\ w_pc' # "send" /\ send_result' = "other")
        => /\ w_pc' = "get"
           /\ recognition' = recognition
           /\ sessions' = sessions
           /\ session_state' = session_state
           /\ connection_alive' = connection_alive
           /\ reconnect_count' = reconnect_count
           /\ audio_queue' = audio_queue
           /\ is_running' = is_running ]_vars

\* such a failure has happened with a frame still queued, on a session made
\* by a reconnect
C26_Witness ==
    /\ send_result = "other"
    /\ w_pc = "get"
    /\ connection_alive
    /\ recognition > 1
    /\ reconnect_count > 0
    /\ audio_queue # <<>>

-----------------------------------------------------------------------------
(* LLMTextDetector: feed_text next to the drain of _detect_loop, both      *)
(* under _buffer_lock (src/alert/llm_text_detector.py:78-82, 101-116)      *)

FeedCalls == 3       \* feed_text calls in one behaviour of SpecLlmLock

\* a lock that anybody may take at any time
BufferLockFreeAlways(l) == TRUE

\* threading.Lock: `with self._buffer_lock` waits until the lock is free
BufferLockFree(l) == l = "free"

LockStep == UNCHANGED <<gateVars, clock, threadVars, logVars, pipeVars,
                        clientVars, matcherVars, monitorVars, qwenVars,
                        runVars, bufVars, evVars, worker2Vars, sendVars,
                        fetchVars,
                        moreVars>>

\* lines 78-80: feed_text is called with a non-empty text and reaches the
\* `with` statement
FeedText(limit, frags) ==
    /\ mode = "asr+llm"
    /\ feed_pc = "idle"
    /\ feed_calls < limit
    /\ \E frag \in frags : feed_frag' = frag
    /\ feed_pc' = "lock"
    /\ feed_calls' = feed_calls + 1
    /\ UNCHANGED <<llmVars, llm_lock>>
    /\ LockStep

\* line 81: the lock is taken
FeedTextAcquire ==
    /\ feed_pc = "lock"
    /\ BufferLockFree(llm_lock)
    /\ llm_lock' = "feeder"
    /\ feed_pc' = "append"
    /\ UNCHANGED <<llmVars, feed_frag, feed_calls>>
    /\ LockStep

\* line 82: the text is appended and the lock released
FeedTextAppend ==
    /\ feed_pc = "append"
    /\ llm_buffer' = llm_buffer \o feed_frag
    /\ llm_lock' = "free"
    /\ feed_pc' = "idle"
    /\ UNCHANGED <<llm_last_alert_time, llm_pc, llm_text, llm_result,
                   feed_frag, feed_calls>>
    /\ LockStep

\* lines 103-107: after the sleep the loop takes the lock
DrainAcquire ==
    /\ mode = "asr+llm"
    /\ llm_pc = "sleep"
    /\ BufferLockFree(llm_lock)
    /\ llm_lock' = "worker"
    /\ llm_pc' = "read"
    /\ UNCHANGED <<llm_buffer, llm_last_alert_time, llm_text, llm_result,
                   feed_pc, feed_frag, feed_calls>>
    /\ LockStep

\* line 108: `text = self._text_buffer`
DrainRead ==
    /\ llm_pc = "read"
    /\ llm_text' = llm_buffer
    /\ llm_pc' = "clear"
    /\ UNCHANGED <<llm_buffer, llm_last_alert_time, llm_result, lockVars>>
    /\ LockStep

\* lines 109-112: the buffer is emptied, the lock released, and a batch that
\* is too short is skipped
DrainClear ==
    /\ llm_pc = "clear"
    /\ llm_buffer' = <<>>
    /\ llm_lock' = "free"
    /\ llm_pc' = IF TooShort(llm_text) THEN LoopTest ELSE "analyze"
    /\ UNCHANGED <<llm_last_alert_time, llm_text, llm_result, feed_pc,
                   feed_frag, feed_calls>>
    /\ LockStep

NextLlmLock ==
    \/ Tick(StartTime + LlmElapsed)
    \/ FeedText(FeedCalls, ShortFragments)
    \/ FeedTextAcquire
    \/ FeedTextAppend
    \/ DrainAcquire
    \/ DrainRead
    \/ DrainClear
    \/ LlmAnalyze
    \/ LlmAlert

SpecLlmLock == InitLlm /\ [][NextLlmLock]_vars

\* C27: a tick empties exactly the text it took as its batch, feed_text adds
\* its text at the end of the buffer, nothing else changes the buffer, and
\* a classification request is made only for the batch just taken.
C27_DrainAtomic ==
    [][ /\ (llm_pc = "clear" /\ llm_pc' # "clear")
           => (llm_text = llm_buffer /\ llm_buffer' = <<>>)
        /\ (feed_pc = "append" /\ feed_pc' = "idle")
           => llm_buffer' = llm_buffer \o feed_frag
        /\ llm_buffer' # llm_buffer
           => \/ llm_pc = "clear" /\ llm_pc' # "clear"
              \/ feed_pc = "append" /\ feed_pc' = "idle"
        /\ (llm_pc # "analyze" /\ llm_pc' = "analyze")
           => (llm_pc = "clear" /\ llm_text' = llm_buffer)
      ]_vars

\* feed_text waits for the lock while the loop is between taking the batch
\* and emptying the buffer
C27_Witness ==
    /\ llm_pc = "clear"
    /\ llm_text # <<>>
    /\ llm_lock = "worker"
    /\ feed_pc = "lock"

-----------------------------------------------------------------------------
(* Answers of the classifier that do not follow the schema, checked under  *)
(* SpecLlm (src/alert/llm_text_detector.py:101-172)                        *)

\* C28 as claimed: a tick whose classification call fails or whose answer
\* is malformed or cannot be parsed raises no alert, does not put the
\* drained text back, and the loop goes on to its next sleep.
C28_Claimed ==
    [][ /\ (llm_pc = "analyze" /\ llm_pc' \notin {"analyze", "alert"})
           => /\ beeps' = beeps
              /\ web_alerts' = web_alerts
              /\ llm_last_alert_time' = llm_last_alert_time
              /\ llm_buffer' = llm_buffer
              /\ llm_pc' = "sleep"
        /\ (llm_pc = "alert" /\ llm_pc' # "alert" /\ ~llm_result.schema)
           => /\ beeps' = beeps
              /\ web_alerts' = web_alerts
              /\ llm_last_alert_time' = llm_last_alert_time
              /\ llm_buffer' = llm_buffer
              /\ llm_pc' = "sleep"
      ]_vars

-----------------------------------------------------------------------------
(* A failed embedding request, checked under SpecFetch                     *)
(* (src/alert/semantic_matcher.py:119-143, 163-193)                        *)

\* the vectors a call ends with, when its text had n phrases that were not
\* cached and the request for the batch of `lost` of them failed
Resolved(hits, n, lost) == hits + n - lost

\* C29: a batch whose request fails adds no vector and no cache entry, the
\* call goes on with its other batches or with the matching, and the
\* matching uses every vector the call did get; no step of the call is an
\* exception.
C29_FailedBatch ==
    [][ \A t \in Callers :
          /\ (/\ Len(sm_chunks'[t]) < Len(sm_chunks[t])
              /\ last_fetch'[t] = "failed")
             => /\ sm_results'[t] = sm_results[t]
                /\ phrase_embedding_cache' = phrase_embedding_cache
                /\ sm_saving'[t] = 0
                /\ sm_pc'[t] = IF sm_chunks'[t] = <<>> THEN "match"
                               ELSE "fetch"
          /\ Len(sm_chunks'[t]) < Len(sm_chunks[t])
             => sm_pc'[t] \in {"fetch", "save", "match"}
          /\ (sm_pc[t] = "match" /\ sm_pc'[t] # "match")
             => /\ sm_pc'[t] = "return"
                /\ \A kw \in AllKeywords :
                     (Occurrences(sm_matches'[t], kw) > 0)
                     = (/\ InSeq(keyword_embeddings, kw)
                        /\ \E j \in DOMAIN sm_results[t] :
                             SimilarEnough(sm_results[t][j], kw))
      ]_vars

\* a call with eleven new phrases returns matches found with the vectors
\* of its batch of ten, the request for its batch of one having failed
C29_Witness ==
    \E t \in Callers :
        /\ sm_pc[t] = "return"
        /\ last_fetch[t] = "failed"
        /\ Len(sm_results[t]) = Resolved(0, BATCH_SIZE + 1, 1)
        /\ sm_matches[t] # <<>>

-----------------------------------------------------------------------------
(* The keywords of a web alert, checked under SpecPipe                     *)
(* (src/monitor_web.py:165-173, src/alert/keyword_alert.py:139-168)        *)

\* C30: every alert handed to the web server carries a non-empty keyword
\* list, the one check_and_alert detected for the text, whether the match
\* was exact or semantic.
C30_Claimed ==
    [][ Len(web_alerts') > Len(web_alerts)
        => LET sent == web_alerts'[Len(web_alerts')]
               seen == events'[Len(events')]
           IN  /\ sent.keywords # <<>>
               /\ sent.keywords = seen.keywords ]_vars

-----------------------------------------------------------------------------
(* The engines of each mode and the tags of debug mode                     *)
(* (src/monitor_web.py:44-140, 151-197, 245-262)                           *)

ModeFrames == 2      \* audio frames in one behaviour of SpecMode
ModeEvents == 3      \* events of each kind in one behaviour of SpecMode

\* monitor_web.py:245-262, _on_audio_data: the frame is passed to the
\* engines of the mode
AudioSeen ==
    /\ ws_open
    /\ forwarded < ModeFrames
    /\ Forwards(mon_running)
    /\ forwarded' = forwarded + 1
    /\ fed_to' = Fed(mode, Built)
    /\ UNCHANGED <<mode, mon_running, restart_requested, ws_open, web_up,
                   sa_pc, st_pc, interrupted, runs, comp, recognitions>>
    /\ UNCHANGED <<gateVars, clock, threadVars, logVars, text_buffer,
                   events, web_alerts, llmVars, clientVars, matcherVars,
                   monitorVars, qwenVars, bufVars, evVars, worker2Vars,
                   sendVars, lockVars, fetchVars, phraseVars, windowVars, lookupVars>>

\* monitor_web.py:151-177, _on_text_result, the callback of the recognition
\* engine in debug mode and in ASR mode (lines 282 and 299)
AsrTextSeen ==
    /\ mode # "asr+llm"
    /\ comp["asr_engine"] = "started"
    /\ Len(events) < ModeEvents
    /\ \E frag \in ShortFragments : TextResult(frag)
    /\ recognitions' = Append(recognitions, Tag(mode, "asr"))
    /\ UNCHANGED <<clock, mode, llmVars, clientVars, matcherVars, monitorVars,
                   qwenVars, runVars, bufVars, evVars, worker2Vars, sendVars,
                   lockVars, fetchVars, fed_to, phraseVars, windowVars, lookupVars>>

\* monitor_web.py:179-187, _on_qwen2_text, the text callback of the audio
\* detector
QwenTextSeen ==
    /\ comp["audio_detector"] = "started"
    /\ Len(recognitions) < 2 * ModeEvents
    /\ recognitions' = Append(recognitions, Tag(mode, "qwen2-audio"))
    /\ UNCHANGED <<gateVars, clock, threadVars, logVars, pipeVars, llmVars,
                   clientVars, matcherVars, monitorVars, qwenVars, runVars,
                   bufVars, evVars, worker2Vars, sendVars, lockVars,
                   fetchVars, fed_to, phraseVars, windowVars, lookupVars>>

\* monitor_web.py:189-197, _on_qwen2_alert, the alert callback of the audio
\* detector
QwenAlertSeen ==
    /\ comp["audio_detector"] = "started"
    /\ Len(web_alerts) < ModeEvents
    /\ \E kws \in SemanticMatches(keywords) \ { <<>> } :
         web_alerts' = ScheduleAsync(web_alerts,
                         [source |-> Tag(mode, "qwen2-audio"),
                          keywords |-> kws])
    /\ UNCHANGED <<gateVars, clock, threadVars, logVars, mode, text_buffer,
                   events, llmVars, clientVars, matcherVars, monitorVars,
                   qwenVars, runVars, bufVars, evVars, worker2Vars, sendVars,
                   lockVars, fetchVars, modeVars, phraseVars, windowVars, lookupVars>>

NextMode ==
    \/ RunStart
    \/ AudioSeen
    \/ AsrTextSeen
    \/ QwenTextSeen
    \/ QwenAlertSeen

SpecMode == InitRun /\ [][NextMode]_vars

\* the engines a frame goes to in each mode
Backends(md) ==
    CASE md = "debug"       -> {"asr_engine", "audio_detector"}
      [] md = "qwen2-audio" -> {"audio_detector"}
      [] OTHER              -> {"asr_engine"}

\* C33: outside debug mode a frame is passed to exactly one engine: the
\* audio detector in qwen2-audio mode, the recognition engine in every
\* other mode; in debug mode it is passed to both, and every recognition
\* and alert sent to the web clients then carries the tag of the strategy
\* it came from.
C33_OneBackend ==
    [][ /\ forwarded' # forwarded
           => /\ fed_to' = Backends(mode)
              /\ (Cardinality(fed_to') = 1) = (mode # "debug")
        /\ (mode = "debug" /\ Len(recognitions') > Len(recognitions))
           => recognitions'[Len(recognitions')] =
                 IF events' # events THEN "asr" ELSE "qwen2-audio"
        /\ (mode = "debug" /\ Len(web_alerts') > Len(web_alerts))
           => web_alerts'[Len(web_alerts')].source =
                 IF events' # events THEN "asr" ELSE "qwen2-audio" ]_vars

\* debug mode: a frame went to both engines, and recognitions and alerts of
\* both strategies were sent
C33_Witness ==
    /\ mode = "debug"
    /\ Cardinality(fed_to) = 2
    /\ \E i, j \in DOMAIN recognitions :
          recognitions[i] = "asr" /\ recognitions[j] = "qwen2-audio"
    /\ \E i, j \in DOMAIN web_alerts :
          web_alerts[i].source = "asr" /\ web_alerts[j].source = "qwen2-audio"

-----------------------------------------------------------------------------
(* SemanticMatcher._extract_phrases                                        *)
(* (src/alert/semantic_matcher.py:195-220)                                 *)

MIN_LEN      == 2     \* min_len: int = 2
MAX_LEN      == 4     \* max_len: int = 4
RECENT_CHARS == 15    \* text[-15:]
MaxTextLen   == 19    \* the longest text given to _extract_phrases
ShortLen     == 4     \* every text over " ", "a", "b" up to this length

Letters == <<"a", "b", "c", "d", "e", "f", "g">>

\* a text of n letters in which no window of 2 to 4 letters repeats within
\* 7 positions
Cycle(n) == [i \in 1..n |-> Letters[(i % Len(Letters)) + 1]]

RECURSIVE TextsUpTo(_)
TextsUpTo(n) ==
    IF n = 0 THEN { <<>> }
    ELSE LET shorter == TextsUpTo(n - 1)
         IN  shorter \cup { Append(t, c) : t \in shorter, c \in {" ", "a", "b"} }

\* the texts _extract_phrases is given: every short text, and long texts
\* with and without whitespace around them
PhraseTexts ==
    TextsUpTo(ShortLen)
    \cup { Cycle(n) : n \in 5..MaxTextLen }
    \cup { <<" ">> \o Cycle(n) \o <<" ", " ">> : n \in 5..(MaxTextLen - 3) }

\* line 207: `text[-15:] if len(text) > 15 else text`
RecentText(t) == IF Len(t) > RECENT_CHARS THEN Suffix(t, RECENT_CHARS) ELSE t

\* line 212: the windows of length n over s, from left to right
WindowsOf(s, n) == [i \in 1..(Len(s) - n + 1) |-> SubSeq(s, i, i + n - 1)]

\* lines 210-214: the windows of length min_len to max_len, shortest first
RECURSIVE Candidates(_, _)
Candidates(s, n) ==
    IF n > MAX_LEN \/ n > Len(s) THEN <<>>
    ELSE WindowsOf(s, n) \o Candidates(s, n + 1)

\* lines 213-214: `if phrase and phrase not in phrases: phrases.append(..)`
RECURSIVE AddPhrases(_, _)
AddPhrases(phrases, cands) ==
    IF cands = <<>> THEN phrases
    ELSE AddPhrases(IF InSeq(phrases, Head(cands)) THEN phrases
                    ELSE Append(phrases, Head(cands)),
                    Tail(cands))

\* a list returned whole
Uncapped(phrases) == phrases

\* lines 217-218: `phrases[:20]`
Capped(phrases) ==
    IF Len(phrases) > MAX_PHRASES THEN SubSeq(phrases, 1, MAX_PHRASES)
    ELSE phrases

\* _extract_phrases(text), lines 200-220
ExtractPhrases(txt) ==
    LET t == Strip(txt)
    IN  IF Len(t) < MIN_LEN
        THEN (IF t # <<>> THEN <<t>> ELSE <<>>)
        ELSE Capped(AddPhrases(<<>>, Candidates(RecentText(t), MIN_LEN)))

\* a call of _extract_phrases
ExtractCall ==
    /\ \E txt \in PhraseTexts :
         /\ xp_text' = txt
         /\ xp_phrases' = ExtractPhrases(txt)
    /\ UNCHANGED <<gateVars, clock, threadVars, logVars, pipeVars, llmVars,
                   clientVars, matcherVars, monitorVars, qwenVars, runVars,
                   bufVars, evVars, worker2Vars, sendVars, lockVars,
                   fetchVars, modeVars, windowVars, lookupVars>>

SpecPhrases == InitSem /\ [][ExtractCall]_vars

\* p occurs in s as a contiguous window
WindowIn(p, s) ==
    \E i \in 1..(Len(s) - Len(p) + 1) : SubSeq(s, i, i + Len(p) - 1) = p

\* the last 15 characters of the text without the whitespace at its ends
StrippedTail(txt) ==
    LET t == Strip(txt)
    IN  SubSeq(t, IF Len(t) > 15 THEN Len(t) - 14 ELSE 1, Len(t))

NoDuplicates(q) == \A i, j \in DOMAIN q : q[i] = q[j] => i = j

\* C37 as claimed: the list returned has at most 20 phrases and no
\* duplicates, and each phrase is a window of length 2 to 4 of the last 15
\* characters of the stripped text.
C37_Claimed ==
    /\ Len(xp_phrases) <= 20
    /\ NoDuplicates(xp_phrases)
    /\ \A i \in DOMAIN xp_phrases :
          /\ Len(xp_phrases[i]) \in 2..4
          /\ WindowIn(xp_phrases[i], StrippedTail(xp_text))

\* C37: the list returned has at most 20 phrases and no duplicates; each
\* phrase is a window of length 2 to 4 of the last 15 characters of the
\* stripped text, except that a stripped text of one character is returned
\* as the only phrase.
C37_Amended ==
    /\ Len(xp_phrases) <= 20
    /\ NoDuplicates(xp_phrases)
    /\ IF Len(Strip(xp_text)) = 1
       THEN xp_phrases = << Strip(xp_text) >>
       ELSE \A i \in DOMAIN xp_phrases :
              /\ Len(xp_phrases[i]) \in 2..4
              /\ WindowIn(xp_phrases[i], StrippedTail(xp_text))

\* a text of 19 characters gave 20 phrases, the cap
C37_Witness ==
    /\ Len(Strip(xp_text)) > 15
    /\ Len(xp_phrases) = 20
    /\ Len(xp_phrases[20]) = 4

-----------------------------------------------------------------------------
(* The requests of one find_similar_keywords call, checked under SpecSem   *)
(* (src/alert/semantic_matcher.py:97-143)                                  *)

MAX_WORKERS == 4      \* ThreadPoolExecutor(max_workers=min(4, len(chunks)))

RECURSIVE SumSeq(_)
SumSeq(q) == IF q = <<>> THEN 0 ELSE Head(q) + SumSeq(Tail(q))

\* C38: the call that begins takes its cached phrases from the cache and
\* requests only the others, each in one batch: every batch has 1 to 10
\* phrases, all but the last have 10, cached and requested phrases together
\* are the at most 20 candidates, and at most 4 requests are in flight; a
\* completed request leaves the other requests as they are.
C38_Batches ==
    [][ \A t \in Callers :
          /\ (sm_pc[t] = "idle" /\ sm_pc'[t] \in {"fetch", "match"})
             => LET sent == sm_chunks'[t]
                IN  /\ Len(sent) <= MAX_WORKERS
                    /\ \A i \in DOMAIN sent :
                         /\ sent[i] \in 1..10
                         /\ i < Len(sent) => sent[i] = 10
                    /\ Len(sm_results'[t]) + SumSeq(sent) <= 20
                    /\ \A j \in DOMAIN sm_results'[t] :
                         \E p \in DOMAIN phrase_embedding_cache :
                            sm_results'[t][j] =
                               PhraseVec(phrase_embedding_cache[p])
                    /\ (sm_pc'[t] = "match") = (sent = <<>>)
          /\ (sm_pc[t] = "fetch" /\ sm_chunks'[t] # sm_chunks[t])
             => \E i \in DOMAIN sm_chunks[t] :
                   /\ sm_chunks'[t] = RemoveAt(sm_chunks[t], i)
                   /\ sm_saving'[t] \in {0, sm_chunks[t][i]}
      ]_vars

\* a call found one phrase in the cache and has a request of ten and a
\* request of one in flight for its eleven other phrases
C38_Witness ==
    \E t \in Callers :
        /\ sm_pc[t] = "fetch"
        /\ sm_chunks[t] = <<10, 1>>
        /\ Len(sm_results[t]) = 1

-----------------------------------------------------------------------------
(* The windows of audio Qwen2AudioDetector analyses                        *)
(* (src/alert/audio_detector.py:81-87, 106-123)                            *)

\* line 116: `self.audio_buffer[:self.buffer_size]`
Window(buf, n) == SubSeq(buf, 1, n)

\* a buffer that keeps the last frame of the chunk it gave away
RestFromLast(buf, n) == SubSeq(buf, n, Len(buf))

\* line 117: `self.audio_buffer[self.buffer_size:]`
Rest(buf, n) == SubSeq(buf, n + 1, Len(buf))

WindowStep == UNCHANGED <<gateVars, threadVars, logVars, mode, text_buffer,
                          events, llmVars, clientVars, matcherVars,
                          monitorVars, runVars, bufVars, evVars, worker2Vars,
                          sendVars, lockVars, fetchVars, modeVars, phraseVars,
                          lookupVars>>

\* lines 86-87, with the frame that is appended: the one feed_audio was
\* called with
FeedAppendSeen ==
    /\ AppendFrame
    /\ qa_bytes' = qa_bytes \o <<qa_fed>>
    /\ UNCHANGED qa_windows
    /\ WindowStep

\* lines 110-117, with the chunk that is cut off the buffer
QaAcquireSeen ==
    /\ TakeChunk
    /\ IF audio_buffer < ChunkFrames
       THEN UNCHANGED windowVars
       ELSE /\ qa_windows' = Append(qa_windows, Window(qa_bytes, ChunkFrames))
            /\ qa_bytes' = Rest(qa_bytes, ChunkFrames)
    /\ WindowStep

NextWindow ==
    \/ Tick(StartTime + QwenElapsed)
    \/ QaStart
    \/ FeedCall(QwenFrames)
    \/ FeedAppendSeen
    \/ QaTest
    \/ QaAcquireSeen
    \/ QaWake
    \/ QaDetect
    \/ QaAlert
    \/ QaStop
    \/ QaStopJoined

SpecWindow == InitQwen /\ [][NextWindow]_vars

RECURSIVE Flatten(_)
Flatten(q) == IF q = <<>> THEN <<>> ELSE Head(q) \o Flatten(Tail(q))

\* C39: every chunk given to the remote call is exactly one buffer_size of
\* audio, and the chunks in order, followed by what is still buffered, are
\* the frames fed so far in arrival order: nothing is analysed twice,
\* reordered or skipped, whatever the interleaving of feed_audio and the
\* detection loop; a remote call is made for a chunk only.
C39_Windows ==
    LET heard == Flatten(qa_windows) \o qa_bytes
        arrived == IF fa_pc = "lock" THEN qa_fed - 1 ELSE qa_fed
    IN  /\ \A w \in DOMAIN qa_windows : Len(qa_windows[w]) = ChunkFrames
        /\ heard = [i \in 1..arrived |-> i]
        /\ qa_pc = "detect" => qa_windows # <<>>

\* two chunks were cut while frames kept arriving, and the second is being
\* analysed
C39_Witness ==
    /\ qa_pc = "detect"
    /\ qa_windows = << <<1, 2>>, <<3, 4>> >>
    /\ qa_bytes = <<>>

-----------------------------------------------------------------------------
(* check_and_alert with its call of find_similar_keywords                  *)
(* (src/alert/keyword_alert.py:126-168,                                    *)
(*  src/alert/semantic_matcher.py:97-193)                                  *)

LookupInserts == 3    \* cache entries made in one behaviour

\* the thread of the running session calls the matcher as "session", the
\* thread of a replaced session as "stale"
CallerOf(t) == IF t = 1 THEN "session" ELSE "stale"

\* a matcher that is asked about every text
ConsultsAlways(exact, matcher) == matcher

\* keyword_alert.py:145: `not detected_keywords and self.semantic_matcher
\* and self.semantic_matcher.enabled`
Consults(exact, matcher) == exact = <<>> /\ matcher

\* a lock that is kept until the vectors have arrived
KeptBy(c) == c

\* semantic_matcher.py:105-108 and 147-153: the `with self._cache_lock`
\* block ends
Released(c) == "free"

\* keyword_alert.py:133-146: check_and_alert(txt) up to the call of
\* find_similar_keywords, in the modes whose KeywordAlert is built with the
\* configured enable_semantic (monitor_web.py:49-57 and 121-129)
LkCall(t) ==
    /\ GateStep
    /\ mode \in {"asr", "debug"}
    /\ pc[t] = "idle"
    /\ sm_pc[CallerOf(t)] = "idle"
    /\ CallerOf(t) = "stale" => ~stale_called
    /\ calls < MaxCalls
    /\ calls' = calls + 1
    /\ \E txt \in GateTexts :
         /\ text' = [text EXCEPT ![t] = txt]
         /\ detected_keywords' =
               [detected_keywords EXCEPT ![t] = ExactMatches(keywords, txt)]
         /\ IF txt = <<>>
            THEN Return(t, "empty")
            ELSE IF Consults(ExactMatches(keywords, txt),
                             semantic_enabled /\ sm_enabled)
            THEN /\ pc' = [pc EXCEPT ![t] = "lookup"]
                 /\ outcome' = [outcome EXCEPT ![t] = "none"]
                 /\ UNCHANGED <<is_semantic_match, current_time>>
            ELSE IF ExactMatches(keywords, txt) = <<>>
            THEN Return(t, "nomatch")
            ELSE /\ pc' = [pc EXCEPT ![t] = "acquire"]
                 /\ outcome' = [outcome EXCEPT ![t] = "none"]
                 /\ UNCHANGED <<is_semantic_match, current_time>>
    /\ UNCHANGED <<gateVars, clock, logVars>>

LookupStep == UNCHANGED <<gateVars, clock, threadVars, logVars, pipeVars,
                          llmVars, clientVars, monitorVars, qwenVars, runVars,
                          bufVars, evVars, worker2Vars, sendVars, lockVars,
                          fetchVars, modeVars, phraseVars, windowVars,
                          qa_lock>>

\* semantic_matcher.py:105 and 147: the caller takes _cache_lock, to read
\* the cache for its phrases or to save a vector
LkAcquire(t) ==
    /\ pc[t] = "lookup"
    /\ \/ sm_pc[CallerOf(t)] = "idle" /\ sm_enabled /\ keyword_embeddings # <<>>
       \/ sm_pc[CallerOf(t)] = "save"
    /\ cache_lock = "free"
    /\ cache_lock' = CallerOf(t)
    /\ UNCHANGED matcherVars
    /\ LookupStep

\* semantic_matcher.py:170-171 and 99-117: find_similar_keywords returns at
\* once when the matcher has no keyword vectors; otherwise the cache is read
\* under the lock and the batches are submitted after the lock is released
LkConsult(t) ==
    /\ pc[t] = "lookup"
    /\ IF sm_enabled /\ keyword_embeddings # <<>>
       THEN /\ cache_lock = CallerOf(t)
            /\ cache_lock' = Released(CallerOf(t))
       ELSE UNCHANGED cache_lock
    /\ CallBody(CallerOf(t), LookupInserts, {0, 1, 2})
    /\ LookupStep

\* semantic_matcher.py:139-141 and 145-153: a vector is saved under the lock
LkSave(t) ==
    /\ cache_lock = CallerOf(t)
    /\ cache_lock' = Released(CallerOf(t))
    /\ SaveBody(CallerOf(t))
    /\ LookupStep

\* semantic_matcher.py:193 and keyword_alert.py:148-154: the matches go
\* back to check_and_alert
LkTake(t) ==
    /\ pc[t] = "lookup"
    /\ sm_pc[CallerOf(t)] = "return"
    /\ LET found == sm_matches[CallerOf(t)]
           kws   == [i \in DOMAIN found |-> found[i].keyword]
       IN  /\ detected_keywords' = [detected_keywords EXCEPT ![t] = kws]
           /\ IF kws = <<>>
              THEN Return(t, "nomatch")
              ELSE /\ is_semantic_match' =
                        [is_semantic_match EXCEPT ![t] = TRUE]
                   /\ pc' = [pc EXCEPT ![t] = "acquire"]
                   /\ UNCHANGED <<outcome, current_time>>
    /\ sm_pc' = [sm_pc EXCEPT ![CallerOf(t)] = "idle"]
    /\ sm_results' = [sm_results EXCEPT ![CallerOf(t)] = <<>>]
    /\ sm_matches' = [sm_matches EXCEPT ![CallerOf(t)] = <<>>]
    /\ sm_raced' = [sm_raced EXCEPT ![CallerOf(t)] = FALSE]
    /\ UNCHANGED <<cacheVars, sm_chunks, sm_saving, last_by, stale_called>>
    /\ UNCHANGED <<gateVars, clock, text, calls, logVars, pipeVars, llmVars,
                   clientVars, monitorVars, qwenVars, extVars>>

\* monitor_web.py:118-131, the "asr" mode: a KeywordAlert without a
\* matcher, or with one that is disabled, or enabled with its keyword vectors
InitLookup ==
    /\ keywords = <<K1, K2>>
    /\ cooldown = ALERT_COOLDOWN
    /\ semantic_enabled \in BOOLEAN
    /\ last_alert_time = 0
    /\ lock = 0
    /\ clock = StartTime
    /\ NoCallers
    /\ accepted = <<>>
    /\ alerts = 0
    /\ mode = "asr"
    /\ text_buffer = <<>>
    /\ events = <<>>
    /\ web_alerts = <<>>
    /\ NoLlmDetector
    /\ NewClient
    /\ MonitorStarted
    /\ NoQwen
    /\ NoExt
    /\ sm_enabled \in (IF semantic_enabled THEN BOOLEAN ELSE {FALSE})
    /\ keyword_embeddings \in (IF sm_enabled THEN Prefixes(keywords)
                               ELSE { <<>> })
    /\ phrase_embedding_cache = <<>>
    /\ inserted = 0
    /\ evicted = 0
    /\ sm_pc = NoCaller
    /\ sm_results = [t \in Callers |-> <<>>]
    /\ sm_chunks = [t \in Callers |-> <<>>]
    /\ sm_saving = [t \in Callers |-> 0]
    /\ sm_raced = [t \in Callers |-> FALSE]
    /\ last_by = "none"
    /\ sm_matches = [t \in Callers |-> <<>>]
    /\ stale_called = FALSE

NextLookup ==
    \/ \E t \in {1, 2} :
          \/ LkCall(t)
          \/ LkAcquire(t)
          \/ LkConsult(t)
          \/ LkSave(t)
          \/ LkTake(t)
          \/ Enter(t)
          \/ CheckCooldown(t)
          \/ UpdateLast(t)
          \/ Trigger(t)
    \/ \E c \in Callers :
          \/ SmChunkDone(c)
          \/ SmMatch(c)

SpecLookup == InitLookup /\ [][NextLookup]_vars

\* C35: the semantic matcher is consulted, and embedding requests are in
\* flight, only for a text in which the exact loop found no keyword and only
\* with an enabled matcher; a call is marked as a semantic match only when
\* no exact keyword matched its text
C35_SemanticOnlyAfterExact ==
    \A t \in {1, 2} :
       /\ pc[t] = "lookup" =>
             /\ ExactMatches(keywords, text[t]) = <<>>
             /\ semantic_enabled
             /\ sm_enabled
       /\ sm_pc[CallerOf(t)] # "idle" => pc[t] = "lookup"
       /\ sm_chunks[CallerOf(t)] # <<>> => pc[t] = "lookup"
       /\ is_semantic_match[t] => ExactMatches(keywords, text[t]) = <<>>

\* one call is about to alert on a semantic match while another, whose text
\* holds a keyword, went straight to the cooldown gate
C35_Witness ==
    \E t \in {1, 2} : \E u \in {1, 2} :
       /\ is_semantic_match[t]
       /\ pc[t] = "trigger"
       /\ ExactMatches(keywords, text[u]) # <<>>
       /\ pc[u] = "acquire"
       /\ sm_pc[CallerOf(u)] = "idle"

\* C32: while the embedding requests of a lookup are in flight, the thread
\* that delivers the transcript fragments of that session is not held inside
\* check_and_alert, so the next fragment can be delivered
\* (monitor_web.py:166 calls check_and_alert on the delivering thread, and
\*  semantic_matcher.py:136-141 waits there for every batch)
C32_Claimed ==
    \A t \in {1, 2} : sm_pc[CallerOf(t)] = "fetch" => pc[t] = "idle"

-----------------------------------------------------------------------------
(* The locks of the four components and the remote calls                   *)
(* (keyword_alert.py:157-164, semantic_matcher.py:105-153,                 *)
(*  llm_text_detector.py:81-116, audio_detector.py:86-121 and 233-237)     *)

\* audio_detector.py:233, `with self.lock` of _trigger_alert
QaGateAcquire ==
    /\ qa_pc = "alert"
    /\ qa_lock = "free"
    /\ qa_lock' = "worker"
    /\ UNCHANGED <<gateVars, clock, threadVars, logVars, pipeVars, llmVars,
                   clientVars, matcherVars, monitorVars, qwenVars, runVars,
                   bufVars, evVars, worker2Vars, sendVars, lockVars,
                   fetchVars, modeVars, phraseVars, windowVars, cache_lock>>

\* audio_detector.py:234-255: the cooldown test and the update under the
\* lock, then the callback
QaGate ==
    /\ qa_lock = "worker"
    /\ qa_lock' = "free"
    /\ AlertBody
    /\ UNCHANGED <<gateVars, threadVars, logVars, mode, text_buffer, events,
                   llmVars, clientVars, matcherVars, monitorVars, runVars,
                   bufVars, evVars, worker2Vars, sendVars, lockVars,
                   fetchVars, modeVars, phraseVars, windowVars, cache_lock>>

\* monitor_web.py:45-149: the mode decides which components are built
InitLocks == InitLookup \/ InitLlm \/ InitQwen

NextLocks ==
    \/ Tick(StartTime + LlmElapsed)
    \/ \E t \in {1, 2} :
          \/ LkCall(t)
          \/ LkAcquire(t)
          \/ LkConsult(t)
          \/ LkSave(t)
          \/ LkTake(t)
          \/ Enter(t)
          \/ CheckCooldown(t)
          \/ UpdateLast(t)
          \/ Trigger(t)
    \/ \E c \in Callers :
          \/ SmChunkDone(c)
          \/ SmMatch(c)
    \/ FeedText(FeedCalls, ShortFragments)
    \/ FeedTextAcquire
    \/ FeedTextAppend
    \/ DrainAcquire
    \/ DrainRead
    \/ DrainClear
    \/ LlmAnalyze
    \/ LlmAlert
    \/ QaStart
    \/ FeedCall(QwenFrames)
    \/ FeedAppend
    \/ QaTest
    \/ QaAcquire
    \/ QaWake
    \/ QaDetect
    \/ QaGateAcquire
    \/ QaGate
    \/ QaStop
    \/ QaStopJoined

SpecLocks == InitLocks /\ [][NextLocks]_vars

\* C31: a thread that has an embedding, classification or audio-analysis
\* request in flight holds none of the locks, and a lock is held only at the
\* steps that read or write the state it guards (for buffer_lock also during
\* the sleep of audio_detector.py:112, which is no remote call)
C31_NoLockAcrossRemoteCall ==
    /\ \A t \in {1, 2} :
          /\ sm_pc[CallerOf(t)] = "fetch" =>
                (cache_lock # CallerOf(t) /\ lock # t)
          /\ cache_lock = CallerOf(t) => sm_pc[CallerOf(t)] \in {"idle", "save"}
          /\ lock = t => pc[t] \in {"check", "update"}
    /\ llm_pc = "analyze" => llm_lock # "worker"
    /\ llm_lock = "worker" => llm_pc \in {"read", "clear"}
    /\ qa_pc = "detect" => (buffer_lock # "worker" /\ qa_lock # "worker")
    /\ buffer_lock = "worker" => qa_pc \in {"sleep", "exited"}
    /\ qa_lock = "worker" => qa_pc = "alert"

\* the requests of one caller are in flight, after a vector was saved under
\* the cache lock, while the other caller holds that lock to read the cache
C31_Witness ==
    \E t \in {1, 2} : \E u \in {1, 2} :
       /\ sm_pc[CallerOf(t)] = "fetch"
       /\ inserted >= 1
       /\ cache_lock = CallerOf(u)
       /\ u # t

-----------------------------------------------------------------------------
(* Calls of check_and_alert that raise no alert, checked under Spec        *)
(* (src/alert/keyword_alert.py:126-168)                                    *)

Suppressed == {"empty", "nomatch", "cooldown"}

\* C34: a step in which a call returns because its text is empty, holds no
\* keyword or falls into the cooldown changes neither last_alert_time nor
\* the alerts raised; last_alert_time changes only to the time of a newly
\* accepted alert.
C34_SuppressedLeavesGate ==
    [][ /\ \A t \in Threads :
             (/\ pc[t] # pc'[t] \/ text'[t] # text[t] \/ outcome'[t] # outcome[t]
              /\ pc'[t] = "idle"
              /\ outcome'[t] \in Suppressed)
             => /\ last_alert_time' = last_alert_time
                /\ alerts' = alerts
                /\ accepted' = accepted
        /\ last_alert_time' # last_alert_time
             => /\ Len(accepted') = Len(accepted) + 1
                /\ last_alert_time' = accepted'[Len(accepted')] ]_vars

\* an alert was accepted, time has passed, and a later call with a keyword
\* has returned, rejected by cooldown
C34_Witness ==
    /\ alerts >= 1
    /\ accepted # <<>>
    /\ last_alert_time < clock
    /\ \E t \in Threads :
          /\ outcome[t] = "cooldown"
          /\ pc[t] = "idle"

-----------------------------------------------------------------------------
(* The text a tick of the classifier sends, checked under SpecLlm          *)
(* (src/alert/llm_text_detector.py:106-116)                                *)

\* C36 as claimed: a tick goes on to the classification request only when
\* the drained text has more than 2 characters that are not whitespace.
C36_Claimed ==
    [][ (llm_pc = "sleep" /\ llm_pc' = "analyze")
        => NonSpace(llm_text') > 2 ]_vars

\* C36: a tick goes on to the classification request, with the whole
\* drained text, exactly when that text has at least 2 characters once
\* leading and trailing whitespace is removed (whitespace inside the text
\* counts); a shorter or blank text is dropped without a request.
C36_Amended ==
    [][ /\ (llm_pc = "sleep" /\ llm_pc' = "analyze")
           => /\ Len(Strip(llm_buffer)) >= 2
              /\ llm_text' = llm_buffer
        /\ (llm_pc = "sleep" /\ llm_buffer # <<>> /\ llm_buffer' = <<>>
            /\ Len(Strip(llm_buffer)) >= 2)
           => llm_pc' = "analyze" ]_vars

\* the request is about to be made for "p p ", which has two characters
\* that are not whitespace
C36_Witness ==
    /\ llm_pc = "analyze"
    /\ llm_text = Please \o Please
    /\ NonSpace(llm_text) = 2

-----------------------------------------------------------------------------
(* Saving a phrase that is already cached, checked under SpecCache         *)
(* (src/alert/semantic_matcher.py:145-153)                                 *)

\* C40: an entry leaves the phrase cache only in a step that inserts a
\* phrase not yet present into a full cache; saving a phrase that is already
\* cached removes no entry.
C40_Claimed ==
    [][ (/\ phrase_embedding_cache # <<>>
         /\ Head(phrase_embedding_cache') # Head(phrase_embedding_cache))
        => /\ inserted' = inserted + 1
           /\ CacheFull(phrase_embedding_cache) ]_vars

-----------------------------------------------------------------------------
TypeOK ==
    /\ cooldown \in Nat
    /\ lock \in 0..NumThreads
    /\ clock >= StartTime
    /\ calls \in 0..MaxCalls
    /\ last_alert_time \in {0} \cup (StartTime..clock)
    /\ mode \in {"none", "asr", "asr+llm", "console", "qwen2-audio", "debug"}
    /\ Len(text_buffer) <= BUFFER_LIMIT
    /\ reconnect_count \in 0..MAX_RECONNECT
    /\ recognition \in {0, sessions}
    /\ w_pc \in {"unstarted", "create", "get", "send", "rc_sleep",
                 "rc_create", "done"}
    /\ (w_frame # 0) = (w_pc = "send")
    /\ oldest_fate \in {"none", "queued", "sent", "lost"}
    /\ Len(phrase_embedding_cache) <= inserted
    /\ sm_pc \in [Callers -> {"idle", "fetch", "save", "match", "return"}]
    /\ loop_running \in BOOLEAN
    /\ llm_running \in BOOLEAN
    /\ llm_pc \in {"sleep", "read", "clear", "analyze", "alert", "exited"}
    /\ llm_stop_pc \in {"idle", "join", "returned"}
    /\ beeps \in Nat
    /\ stop_returned \in BOOLEAN
    /\ stop_returned => stopped
    /\ audio_buffer \in Nat
    /\ buffer_lock \in {"free", "worker"}
    /\ qa_pc \in {"unstarted", "test", "acquire", "sleep", "detect", "alert",
                  "exited"}
    /\ (buffer_lock = "worker") = (qa_pc = "sleep")
    /\ qa_stop_pc \in {"idle", "join", "returned"}
    /\ fa_pc \in {"idle", "lock"}
    /\ mon_running \in BOOLEAN
    /\ restart_requested \in BOOLEAN
    /\ ws_open \in BOOLEAN
    /\ web_up \in BOOLEAN
    /\ sa_pc \in {"init", "serve", "finally", "exit"}
    /\ st_pc \in [Stoppers -> {"idle", "web", "engines", "done"}]
    /\ interrupted \in BOOLEAN
    /\ runs \in 0..MaxRuns
    /\ comp \in [Components ->
                   {"none", "created", "started", "exited", "abandoned"}]
    /\ forwarded \in 0..RunFrames
    /\ cb_pc \in [Callers -> {"idle", "load", "store", "check", "after"}]
    /\ cb_ok \in [Callers -> BOOLEAN]
    /\ cb_calls \in Nat
    /\ ev_count \in Nat
    /\ w2_pc \in {"unstarted", "create", "get", "send", "rc_sleep",
                  "rc_create", "done"}
    /\ (w2_frame # 0) = (w2_pc = "send")
    /\ send_result \in {"none", "ok", "transport", "other"}
    /\ llm_lock \in {"free", "feeder", "worker"}
    /\ feed_pc \in {"idle", "lock", "append"}
    /\ last_fetch \in [Callers -> {"none", "ok", "failed"}]
    /\ fed_to \subseteq Components
    /\ recognitions \in Seq({"none", "asr", "qwen2-audio"})
    /\ xp_text \in PhraseTexts
    /\ Len(qa_bytes) \in {0, audio_buffer}
    /\ cache_lock \in {"free"} \cup Callers
    /\ qa_lock \in {"free", "worker"}
    /\ (llm_lock = "worker") = (llm_pc \in {"read", "clear"})
    /\ pc \in [Threads -> {"idle", "lookup", "acquire", "check", "update",
                           "trigger"}]
    /\ (llm_lock = "feeder") = (feed_pc = "append")

=============================================================================
